---- MODULE Spec2Model ----
(***************************************************************************)
(* guMCP-js: the remote SSE/HTTP gateway (runRemoteServer) with its        *)
(* session maps and metrics, and the line framer / dispatcher of the       *)
(* plugin Server class (Server.run, Server.handleRequest).                 *)
(*                                                                         *)
(* Spec    : the gateway; the plugin's run is a black box that may settle  *)
(*           (resolve or reject) at any time after it was started.         *)
(* SseSpec : the accept route and the outbound side of its connections,    *)
(*           with what the plugin writes.                                  *)
(* GcSpec  : the gateway running the gcalendar Server, whose run settles   *)
(*           on the events of its streams only; with fairness.             *)
(* FrSpec  : Server.run on one pair of streams.                            *)
(* SessSpec: the gateway with the gcalendar Server.run on each connection. *)
(* MainSpec: main from the start of the process: discovery, the listens,   *)
(*           the accept route; the local command.                          *)
(* CreateSpec: the accept route of the registered plugins, with factories  *)
(*           that throw.                                                   *)
(* AuthSpec: the credentials store of LocalAuthClient and getCredentials.   *)
(* ToolSpec: the call_tool requests of the calendar plugin.                *)
(***************************************************************************)
EXTENDS Integers, Sequences, FiniteSets, TLC

\* ------------------------------------------------------------------ bounds
MaxConns == 2      \* SSE connections accepted in one run of the model
MaxQueue == 1      \* messages held by the inbound streams, all together
MaxWrites == 1     \* calls of writeStream.write, all connections together

\* --------------------------------------------------------------- constants
NoKey == <<>>               \* no session key
NoInstance == 0             \* userServerInstances.get(k) is undefined
NoTransport == 0            \* userSessionTransports.get(k) is undefined
NullBody == "null"          \* a POST body that is the JSON value null

\* Text is a sequence of pieces; "\n" is the line break, every other piece
\* stands for a run of characters without a line break.
NL == "\n"

RECURSIVE indexOfNL(_, _)
\* t.indexOf('\n') as a position from 1, searched from position i;
\* 0 stands for -1
indexOfNL(t, i) ==
    IF i > Len(t) THEN 0
    ELSE IF t[i] = NL THEN i
    ELSE indexOfNL(t, i + 1)

\* discoveredServers: the plugins for which routes exist
ServerNames == {"gcalendar"}

\* the :sessionKey path segment, as text (":" is the colon character)
Segments == {<<"u1">>, <<"u1", ":", "k1">>}

\* `${serverName}:${sessionKeyEncoded}`
sessionKey(serverName, sessionKeyEncoded) ==
    <<serverName, ":">> \o sessionKeyEncoded

Keys == {sessionKey(s, e) : s \in ServerNames, e \in Segments}

\* request bodies of the message route
Bodies == {"m1", NullBody}

ConnIds == 1..MaxConns

VARIABLES
    userServerInstances,    \* sessionKey -> instance, named by the connection that built it
    userSessionTransports,  \* sessionKey -> connection whose streams are registered
    activeConnections,      \* gauge, by server name
    connectionTotal,        \* counter, by server name
    conns,                  \* the accepted SSE connections, by order of accept
    nconn,                  \* connections accepted so far
    constructed,            \* sessionKey -> instances built by createServerInstance
    httpReply,              \* status code of the last answer of the message route, or of an accept that threw (0: none yet)
    wire,                   \* Server.run: the text readStream has yet to deliver
    buffer,                 \* Server.run: `buffer`
    seen,                   \* the lines taken out of buffer so far, in order
    pending,                \* 'data' handlers suspended at `await this.handleRequest`
    out,                    \* the frames given to writeStream.write, in order
    ended,                  \* readStream has emitted 'end'
    entries,                \* the listing of SERVERS_DIR, in the order of readdir
    discoveredServers,      \* name -> ServerInfo of the plugin (NoServer: none)
    pc,                     \* where main is: "main", "metrics", "listen", "serving", "stdio", "done", "exited"
    exitCode,               \* the exit status of the process (0: none was set)
    stdio,                  \* local mode: the instance runStdioServer made, and its run
    credentialFiles,        \* LocalAuthClient: path under credentialsBaseDir -> text of the file (NoFile: none)
    saved,                  \* (service, user) -> the credentials last saved for the pair
    credResult,             \* the outcome of the last call of getCredentials
    toolResponse            \* the answer of handleRequest to the last call_tool request

gwvars == <<userServerInstances, userSessionTransports, activeConnections,
            connectionTotal, conns, nconn, constructed, httpReply>>

frvars == <<wire, buffer, seen, pending, out, ended>>

mainvars == <<entries, discoveredServers, pc, exitCode, stdio>>

authvars == <<credentialFiles, saved, credResult, toolResponse>>

vars == <<gwvars, frvars, mainvars, authvars>>

\* a text, or undefined
Text(t) == [def |-> TRUE, text |-> t]
Undefined == [def |-> FALSE, text |-> <<>>]

\* -----------------------------------------------------------------
\* The credentials store of LocalAuthClient
\* -----------------------------------------------------------------

\* the directory name of the calendar plugin
SERVICE_NAME == "gcalendar"

\* the user ids the store is used with.  A user id is written as its
\* segments between "/"; a segment is a sequence of pieces of text.
StoreUsers == {<<<<"u1">>>>, <<<<".">>, <<"u1">>>>}

\* the (service, user) pairs the store is used for
Pairs ==
    {<<SERVICE_NAME, u>> : u \in StoreUsers} \cup {<<"gdrive", <<<<"u1">>>>>>}

\* Credentials are JSON objects of three members; "undefined" stands for a
\* member the object does not have.  expiry_date is "past" or "future" by
\* its order with Date.now().
Credentials(access_token, refresh_token, expiry_date) ==
    [access_token |-> access_token, refresh_token |-> refresh_token,
     expiry_date |-> expiry_date]

CredentialValues ==
    { Credentials("at1", "rt1", "future"),
      Credentials("at1", "undefined", "past"),
      Credentials("undefined", "rt1", "past") }

\* a value a caller holds: null, or a credentials object
NullCredentials == [isNull |-> TRUE]
Some(credentials) == [isNull |-> FALSE, value |-> credentials]

RECURSIVE normalize(_, _)
\* the normalisation path.join applies: "." segments are dropped and a
\* ".." segment removes the segment before it
normalize(segs, acc) ==
    IF segs = <<>> THEN acc
    ELSE IF Head(segs) = <<".">> THEN normalize(Tail(segs), acc)
    ELSE IF Head(segs) = <<"..">> /\ acc # <<>>
         THEN normalize(Tail(segs), SubSeq(acc, 1, Len(acc) - 1))
    ELSE normalize(Tail(segs), Append(acc, Head(segs)))

\* credsPath, relative to credentialsBaseDir:
\* path.join(path.join(base, serviceName), `${userId}_credentials.json`)
credsPath(serviceName, userId) ==
    normalize(<<<<serviceName>>>>
                  \o SubSeq(userId, 1, Len(userId) - 1)
                  \o <<userId[Len(userId)] \o <<"_credentials.json">>>>,
              <<>>)

Paths == {credsPath(q[1], q[2]) : q \in Pairs}

\* a path at which fs.existsSync is false
NoFile == <<<<"ENOENT", "">>>>

\* getCredentials was not called
NoCredResult == [called |-> FALSE]

\* no call_tool request was handled
NoToolResponse == [sent |-> FALSE]

\* no call of createServerInstance
NotMade ==
    [threw |-> FALSE, how |-> "", userId |-> Undefined, apiKey |-> Undefined]

\* a slot of conns that no accept has used yet
FreeConn ==
    [key |-> NoKey, server |-> "", inst |-> NoInstance, run |-> "none",
     closed |-> FALSE, rs |-> "open", queue |-> <<>>, got |-> 0,
     wsEnded |-> FALSE, replyEnded |-> FALSE, decs |-> 0, dels |-> 0,
     sent |-> <<>>, wrote |-> 0, werrs |-> 0,
     userId |-> Undefined, apiKey |-> Undefined, made |-> NotMade,
     buf |-> <<>>, awaiting |-> <<>>]

Accepted == 1..nconn

RECURSIVE Queued(_)
\* the messages held by the inbound streams of connections 1..n
Queued(n) == IF n = 0 THEN 0 ELSE Len(conns[n].queue) + Queued(n - 1)

RECURSIVE Written(_)
\* the calls of writeStream.write made on connections 1..n
Written(n) == IF n = 0 THEN 0 ELSE conns[n].wrote + Written(n - 1)

\* ------------------------------------------ the servers directory

MaxDirs == 3      \* entries of SERVERS_DIR

\* the names an entry of SERVERS_DIR may have
DirNames == {"gcalendar", "gdrive", "notes"}

\* An exported value, by what the loader and createServerInstance ask of
\* it: "function" is a class or a function declaration (typeof 'function',
\* it has a prototype), "arrow" an arrow or async function (typeof
\* 'function', no prototype), "object" a plain object or null (typeof
\* 'object'), "undefined" a missing export.
Exports == {"function", "arrow", "object", "undefined"}

typeOf(v) ==
    IF v \in {"function", "arrow"} THEN "function"
    ELSE IF v = "object" THEN "object"
    ELSE "undefined"

\* `serverFactory.prototype` is truthy
hasPrototype(v) == v = "function"

\* What an entry of SERVERS_DIR is: a directory or not, with main.ts or
\* not, whose import fulfils or rejects, with its two exports.
Shapes ==
    { [dir |-> FALSE, main |-> FALSE, imports |-> FALSE,
       server |-> "undefined", getInitializationOptions |-> "undefined"],
      [dir |-> TRUE, main |-> FALSE, imports |-> FALSE,
       server |-> "undefined", getInitializationOptions |-> "undefined"],
      [dir |-> TRUE, main |-> TRUE, imports |-> FALSE,
       server |-> "undefined", getInitializationOptions |-> "undefined"],
      [dir |-> TRUE, main |-> TRUE, imports |-> TRUE,
       server |-> "undefined", getInitializationOptions |-> "function"],
      [dir |-> TRUE, main |-> TRUE, imports |-> TRUE,
       server |-> "function", getInitializationOptions |-> "undefined"],
      [dir |-> TRUE, main |-> TRUE, imports |-> TRUE,
       server |-> "function", getInitializationOptions |-> "function"],
      [dir |-> TRUE, main |-> TRUE, imports |-> TRUE,
       server |-> "arrow", getInitializationOptions |-> "function"],
      [dir |-> TRUE, main |-> TRUE, imports |-> TRUE,
       server |-> "object", getInitializationOptions |-> "function"] }

\* servers/gcalendar: main.ts exports `server = createServer`, a function
\* declaration, and the function getInitializationOptions
GCalendar ==
    [dir |-> TRUE, main |-> TRUE, imports |-> TRUE,
     server |-> "function", getInitializationOptions |-> "function"]

\* an entry of SERVERS_DIR
Entry(name, shape) == [name |-> name, shape |-> shape]

\* the listings of SERVERS_DIR with n entries, in the order of readdir
Listings(n) ==
    {es \in [1..n -> {Entry(d, sh) : d \in DirNames, sh \in Shapes}] :
        \A i, j \in 1..n : i # j => es[i].name # es[j].name}

\* null, for a module that was not loaded
NoModule == [server |-> "none", getInitializationOptions |-> "none"]

\* no ServerInfo: the name is not in the map (or getServer's null)
NoServer == [serverFactory |-> "none", getInitializationOptions |-> "none"]

\* loadServerModule, for the entry at serverDir: the module, or null
loadServerModule(entry) ==
    IF ~entry.shape.main THEN NoModule
    ELSE IF ~entry.shape.imports THEN NoModule
    ELSE IF typeOf(entry.shape.server) # "function"
            /\ typeOf(entry.shape.server) # "object" THEN NoModule
    ELSE IF typeOf(entry.shape.getInitializationOptions) # "function"
         THEN NoModule
    ELSE [server |-> entry.shape.server,
          getInitializationOptions |-> entry.shape.getInitializationOptions]

\* the ServerInfo made of a loaded module
ServerInfo(loadedModule) ==
    [serverFactory |-> loadedModule.server,
     getInitializationOptions |-> loadedModule.getInitializationOptions]

\* local mode before runStdioServer: no instance, no run
NoStdio == [how |-> "", userId |-> Undefined, apiKey |-> Undefined, run |-> "none"]

\* `new Map<string, ServerInfo>()`
EmptyMap == [n \in DirNames |-> NoServer]

RECURSIVE loadEntriesStopsAtInvalid(_, _)
\* the loop of discoverAndLoadServers leaving at the first entry that is
\* not loaded
loadEntriesStopsAtInvalid(es, serversMap) ==
    IF es = <<>> THEN serversMap
    ELSE LET entry == Head(es)
             loadedModule == IF entry.shape.dir THEN loadServerModule(entry)
                             ELSE NoModule
         IN  IF loadedModule # NoModule
             THEN loadEntriesStopsAtInvalid(
                      Tail(es),
                      [serversMap EXCEPT ![entry.name] = ServerInfo(loadedModule)])
             ELSE serversMap

RECURSIVE loadEntries(_, _)
\* the loop of discoverAndLoadServers over the entries es still to visit
loadEntries(es, serversMap) ==
    IF es = <<>> THEN serversMap
    ELSE LET entry == Head(es)
             loadedModule == IF entry.shape.dir THEN loadServerModule(entry)
                             ELSE NoModule
         IN  loadEntries(
                 Tail(es),
                 IF loadedModule # NoModule
                 THEN [serversMap EXCEPT ![entry.name] = ServerInfo(loadedModule)]
                 ELSE serversMap)

\* discoverAndLoadServers; readdirFails: fs.readdir rejects
discoverAndLoadServers(es, readdirFails) ==
    IF readdirFails THEN EmptyMap ELSE loadEntries(es, EmptyMap)

\* getServer that loads the directory whether the name is cached or not
getServerAlwaysLoads(servers, es, serverName) ==
    LET found == {i \in DOMAIN es : es[i].name = serverName}
        entry == es[CHOOSE i \in found : TRUE]
        isDirectory == found # {} /\ entry.shape.dir
        loadedModule == IF isDirectory THEN loadServerModule(entry)
                        ELSE NoModule
    IN  IF loadedModule # NoModule
        THEN [servers |-> [servers EXCEPT ![serverName] = ServerInfo(loadedModule)],
              info |-> ServerInfo(loadedModule), loads |-> 1]
        ELSE [servers |-> servers, info |-> servers[serverName],
              loads |-> IF isDirectory THEN 1 ELSE 0]

\* getServer(serverName) with discoveredServers = servers and SERVERS_DIR
\* listing es: the map afterwards, the ServerInfo returned (NoServer for
\* null) and the number of calls of loadServerModule
getServer(servers, es, serverName) ==
    LET found == {i \in DOMAIN es : es[i].name = serverName}
        entry == es[CHOOSE i \in found : TRUE]
        isDirectory == found # {} /\ entry.shape.dir
        loadedModule == IF isDirectory THEN loadServerModule(entry)
                        ELSE NoModule
    IN  IF servers[serverName] # NoServer
        THEN [servers |-> servers, info |-> servers[serverName], loads |-> 0]
        ELSE IF loadedModule # NoModule
        THEN [servers |-> [servers EXCEPT ![serverName] = ServerInfo(loadedModule)],
              info |-> ServerInfo(loadedModule), loads |-> 1]
        ELSE [servers |-> servers, info |-> servers[serverName],
              loads |-> IF isDirectory THEN 1 ELSE 0]

\* createServerInstance that constructs whatever function it is given
createServerInstanceAlwaysNew(serverFactory, userId, apiKey) ==
    IF typeOf(serverFactory) # "function"
    THEN [threw |-> TRUE, how |-> "", userId |-> Undefined, apiKey |-> Undefined]
    ELSE [threw |-> FALSE, how |-> "new", userId |-> userId, apiKey |-> apiKey]

\* createServerInstance without the check of the factory's type
createServerInstanceNeverThrows(serverFactory, userId, apiKey) ==
    IF hasPrototype(serverFactory)
    THEN [threw |-> FALSE, how |-> "new", userId |-> userId, apiKey |-> apiKey]
    ELSE [threw |-> FALSE, how |-> "call", userId |-> userId, apiKey |-> apiKey]

\* createServerInstance: it throws, or the factory was used with `new` or
\* called, with these arguments
createServerInstance(serverFactory, userId, apiKey) ==
    IF typeOf(serverFactory) # "function"
    THEN [threw |-> TRUE, how |-> "", userId |-> Undefined, apiKey |-> Undefined]
    ELSE IF hasPrototype(serverFactory)
    THEN [threw |-> FALSE, how |-> "new", userId |-> userId, apiKey |-> apiKey]
    ELSE [threw |-> FALSE, how |-> "call", userId |-> userId, apiKey |-> apiKey]

\* the path segments of MainSpec's clients: also one with two colons
AllSegments == Segments \cup {<<"u1", ":", "k1", ":", "x">>}

AllKeys == {sessionKey(s, e) : s \in DirNames, e \in AllSegments}

RECURSIVE indexOfColon(_, _)
\* t.indexOf(':') as a position from 1, searched from position i; 0 for -1
indexOfColon(t, i) ==
    IF i > Len(t) THEN 0
    ELSE IF t[i] = ":" THEN i
    ELSE indexOfColon(t, i + 1)

RECURSIVE splitColon(_)
\* t.split(':'): the texts between the colons of t
splitColon(t) ==
    LET i == indexOfColon(t, 1)
    IN  IF i = 0 THEN <<t>>
        ELSE <<SubSeq(t, 1, i - 1)>> \o splitColon(SubSeq(t, i + 1, Len(t)))

\* t.split(':', limit): the first `limit` of them
splitColonLimit(t, limit) ==
    LET all == splitColon(t)
    IN  SubSeq(all, 1, IF Len(all) < limit THEN Len(all) ELSE limit)

\* userId and apiKey as the accept route takes them from the path segment
parseSessionKey(sessionKeyEncoded) ==
    LET parts == splitColonLimit(sessionKeyEncoded, 2)
    IN  IF indexOfColon(sessionKeyEncoded, 1) # 0
        THEN [userId |-> Text(parts[1]),
              apiKey |-> IF Len(parts) >= 2 THEN Text(parts[2]) ELSE Undefined]
        ELSE [userId |-> Text(sessionKeyEncoded), apiKey |-> Undefined]

\* ------------------------------------------------------------- SSE output

\* `: connection established\n\n`
CommentFrame == <<": connection established", NL, NL>>

\* `event: error\ndata: ${JSON.stringify({message: ...})}\n\n`
ErrorFrame ==
    <<"event: error", NL, "data: ", "{\"message\":\"Internal server error\"}",
      NL, NL>>

\* the chunks a plugin gives to writeStream.write: strings (val is the
\* text), and an object (val names it)
Chunks ==
    {[str |-> TRUE, val |-> t] :
        t \in {<<"x", NL>>, <<"x", NL, NL, "y">>}}
      \cup {[str |-> FALSE, val |-> <<"o1">>]}

\* JSON.stringify of an object: one run of characters, no line break
JSONstringify(v) == <<"{">> \o v \o <<"}">>

\* typeof chunk === 'string' ? chunk : JSON.stringify(chunk)
dataString(chunk) == IF chunk.str THEN chunk.val ELSE JSONstringify(chunk.val)

RECURSIVE split(_)
\* t.split('\n')
split(t) ==
    LET b == indexOfNL(t, 1)
    IN  IF b = 0 THEN <<t>>
        ELSE <<SubSeq(t, 1, b - 1)>> \o split(SubSeq(t, b + 1, Len(t)))

RECURSIVE join(_)
\* ls.join('\n')
join(ls) ==
    IF ls = <<>> THEN <<>>
    ELSE IF Len(ls) = 1 THEN ls[1]
    ELSE ls[1] \o <<NL>> \o join(Tail(ls))

\* the event with `data: ` put before the text once, not before each line
sseEventOnePrefix(chunk) ==
    <<"data: ">> \o dataString(chunk) \o <<NL, NL>>

\* dataString.split('\n').map(line => `data: ${line}`).join('\n') + '\n\n'
sseEvent(chunk) ==
    LET lines == split(dataString(chunk))
    IN  join([i \in 1..Len(lines) |-> <<"data: ">> \o lines[i]]) \o <<NL, NL>>

\* reply.raw.write(bytes): nothing reaches a connection that the client has
\* left (the socket is destroyed) or that reply.raw.end() has ended
replyWrite(cr, bytes) ==
    IF cr.closed \/ cr.replyEnded THEN cr
    ELSE [cr EXCEPT !.sent = Append(@, bytes)]

\* writeStream.write(chunk).  After writeStream.end() the Writable fails
\* the write itself (write after end); otherwise its write() runs and
\* fails the write when reply.raw.writableEnded.
writeStreamWrite(cr, chunk) ==
    IF cr.wsEnded \/ cr.replyEnded
    THEN [cr EXCEPT !.wrote = @ + 1, !.werrs = @ + 1]
    ELSE [replyWrite(cr, sseEvent(chunk)) EXCEPT !.wrote = @ + 1]

\* ------------------------------------------------------------ stream parts

\* createMessageEmitter: stream.push(msg) on the object-mode Readable.
\* push(null) is the end-of-stream signal; a push after it, or after
\* destroy(), adds nothing.
pushMessage(c, msg) ==
    IF c.rs # "open" THEN c
    ELSE IF msg = NullBody THEN [c EXCEPT !.rs = "ended"]
    ELSE [c EXCEPT !.queue = Append(@, msg)]

\* readStream.destroy() without the writeStream.end() that follows it
DestroyStreamsKeepsWriter(c) ==
    [c EXCEPT !.rs = "destroyed"]

\* readStream.destroy(); writeStream.end()
DestroyStreams(c) ==
    [c EXCEPT !.rs = "destroyed", !.wsEnded = TRUE]

\* userSessionTransports.set(sessionKey, {reply, messageEmitter}), failing
\* to replace a registration that is there
attachTransportKeepsOld(trans, k, c) ==
    IF trans[k] # NoTransport THEN trans ELSE [trans EXCEPT ![k] = c]

\* userSessionTransports.set(sessionKey, {reply, messageEmitter: readStream})
attachTransport(trans, k, c) ==
    [trans EXCEPT ![k] = c]

\* -------------------------------------------------------------- teardown

\* the close handler with `userServerInstances.delete(sessionKey)` enabled
CloseHandlerEvicts(c) ==
    LET k == conns[c].key
        had == userSessionTransports[k] # NoTransport
    IN  /\ userSessionTransports' = [userSessionTransports EXCEPT ![k] = NoTransport]
        /\ activeConnections' =
               [activeConnections EXCEPT ![conns[c].server] = @ - 1]
        /\ userServerInstances' = [userServerInstances EXCEPT ![k] = NoInstance]
        /\ conns' = [conns EXCEPT ![c] =
               [DestroyStreams(@) EXCEPT !.closed = TRUE,
                                         !.decs = @ + 1,
                                         !.dels = @ + (IF had THEN 1 ELSE 0)]]

\* the close handler clearing the whole transport map
CloseHandlerClearsAll(c) ==
    LET k == conns[c].key
        had == userSessionTransports[k] # NoTransport
    IN  /\ userSessionTransports' = [j \in Keys |-> NoTransport]
        /\ activeConnections' =
               [activeConnections EXCEPT ![conns[c].server] = @ - 1]
        /\ userServerInstances' = userServerInstances
        /\ conns' = [conns EXCEPT ![c] =
               [DestroyStreams(@) EXCEPT !.closed = TRUE,
                                         !.decs = @ + 1,
                                         !.dels = @ + (IF had THEN 1 ELSE 0)]]

\* request.raw.on('close'): delete the key's registration, decrement the
\* gauge, keep the instance (its delete is commented out), destroy the
\* streams
CloseHandler(c) ==
    LET k == conns[c].key
        had == userSessionTransports[k] # NoTransport
    IN  /\ userSessionTransports' = [userSessionTransports EXCEPT ![k] = NoTransport]
        /\ activeConnections' =
               [activeConnections EXCEPT ![conns[c].server] = @ - 1]
        /\ userServerInstances' = userServerInstances
        /\ conns' = [conns EXCEPT ![c] =
               [DestroyStreams(@) EXCEPT !.closed = TRUE,
                                         !.decs = @ + 1,
                                         !.dels = @ + (IF had THEN 1 ELSE 0)]]

\* the finally block of the accept handler of connection record cr, run on
\* the maps trans (userSessionTransports) and gauge (activeConnections)
Finally(trans, gauge, cr) ==
    LET has == trans[cr.key] # NoTransport
    IN  [trans |-> IF has THEN [trans EXCEPT ![cr.key] = NoTransport] ELSE trans,
         gauge |-> IF has THEN [gauge EXCEPT ![cr.server] = @ - 1] ELSE gauge,
         conn  |-> [DestroyStreams(cr) EXCEPT
                        !.decs = @ + (IF has THEN 1 ELSE 0),
                        !.dels = @ + (IF has THEN 1 ELSE 0)]]

\* the try and catch branches ending the reply without an error frame
SettleSilently(cr, how) ==
    [cr EXCEPT !.run = how, !.replyEnded = TRUE]

\* The try and catch branches after run has settled: when the reply is not
\* ended yet, the catch branch writes the error frame, and both end the
\* reply.
Settle(cr, how) ==
    LET w == IF how = "threw" /\ ~cr.replyEnded
             THEN replyWrite(cr, ErrorFrame) ELSE cr
    IN  [w EXCEPT !.run = how, !.replyEnded = TRUE]

\* ------------------------------------------------------ the accept route

\* the gauge incremented on every accept
incActiveAlways(gauge, serverName, isNewInstance) ==
    [gauge EXCEPT ![serverName] = @ + 1]

\* `activeConnections.labels(serverName).inc()` in the branch that creates
\* the instance
incActive(gauge, serverName, isNewInstance) ==
    IF isNewInstance THEN [gauge EXCEPT ![serverName] = @ + 1] ELSE gauge

\* the accept without the connection-established comment
writeHeadOnly(cr) == cr

\* reply.raw.writeHead(200, ...); reply.raw.write(': connection established\n\n')
writeHead(cr) == replyWrite(cr, CommentFrame)

\* GET /<serverName>/:sessionKey up to the await of serverInstance.run.
\* initThrows: getInitializationOptions (or the synchronous part of run)
\* throws, so catch and finally run before the handler ever yields.
AcceptConnection(serverName, seg, initThrows) ==
    LET k     == sessionKey(serverName, seg)
        c     == nconn + 1
        ids   == parseSessionKey(seg)
        isNew == userServerInstances[k] = NoInstance
        made  == createServerInstance(
                     discoveredServers[serverName].serverFactory,
                     ids.userId, ids.apiKey)
        inst  == IF isNew THEN c
                          ELSE userServerInstances[k]
        gauge == incActive(activeConnections, serverName, isNew)
        trans == attachTransport(userSessionTransports, k, c)
        cr    == writeHead([FreeConn EXCEPT
                                !.key = k, !.server = serverName,
                                !.inst = inst, !.run = "pending",
                                !.userId = ids.userId, !.apiKey = ids.apiKey,
                                !.made = IF isNew THEN made ELSE NotMade])
        fin   == Finally(trans, gauge, Settle(cr, "threw"))
    IN  /\ pc = "serving"
        /\ discoveredServers[serverName] # NoServer
        /\ nconn < MaxConns
        /\ IF isNew /\ made.threw
           THEN \* 'Invalid server factory' leaves the handler: Fastify
                \* answers 500
                /\ httpReply' = 500
                /\ UNCHANGED <<userServerInstances, userSessionTransports,
                               activeConnections, connectionTotal, conns,
                               nconn, constructed>>
           ELSE /\ nconn' = c
                /\ userServerInstances' = [userServerInstances EXCEPT ![k] = inst]
                /\ constructed' = IF isNew THEN [constructed EXCEPT ![k] = @ + 1]
                                           ELSE constructed
                /\ connectionTotal' =
                       [connectionTotal EXCEPT ![serverName] = @ + 1]
                /\ IF initThrows
                   THEN /\ userSessionTransports' = fin.trans
                        /\ activeConnections' = fin.gauge
                        /\ conns' = [conns EXCEPT ![c] = fin.conn]
                   ELSE /\ userSessionTransports' = trans
                        /\ activeConnections' = gauge
                        /\ conns' = [conns EXCEPT ![c] = cr]
                /\ UNCHANGED httpReply
        /\ UNCHANGED <<frvars, mainvars, authvars>>

\* GET /<serverName>/:sessionKey for a key without instance, when the
\* factory itself (a constructor or a function of the module) throws: the
\* exception leaves createServerInstance and the handler, Fastify answers
\* 500
AcceptFactoryThrows ==
    /\ pc = "serving"
    /\ nconn < MaxConns
    /\ \E serverName \in DirNames, seg \in AllSegments :
          /\ discoveredServers[serverName] # NoServer
          /\ userServerInstances[sessionKey(serverName, seg)] = NoInstance
          /\ typeOf(discoveredServers[serverName].serverFactory) = "function"
    /\ httpReply' = 500
    /\ UNCHANGED <<userServerInstances, userSessionTransports,
                   activeConnections, connectionTotal, conns, nconn,
                   constructed, frvars, mainvars, authvars>>

\* the client disconnects: the 'close' event of request.raw, once per
\* connection
CloseEvent(c) ==
    /\ c \in Accepted
    /\ ~conns[c].closed
    /\ CloseHandler(c)
    /\ UNCHANGED <<connectionTotal, nconn, constructed, httpReply, frvars, mainvars, authvars>>

\* `await serverInstance.run(...)` resolves: the try branch, then finally
RunReturns(c) ==
    LET fin == Finally(userSessionTransports, activeConnections,
                       Settle(conns[c], "returned"))
    IN  /\ c \in Accepted
        /\ conns[c].run = "pending"
        /\ userSessionTransports' = fin.trans
        /\ activeConnections' = fin.gauge
        /\ conns' = [conns EXCEPT ![c] = fin.conn]
        /\ UNCHANGED <<userServerInstances, connectionTotal, nconn,
                       constructed, httpReply, frvars, mainvars, authvars>>

\* `await serverInstance.run(...)` rejects: the catch branch, then finally
RunThrows(c) ==
    LET fin == Finally(userSessionTransports, activeConnections,
                       Settle(conns[c], "threw"))
    IN  /\ c \in Accepted
        /\ conns[c].run = "pending"
        /\ userSessionTransports' = fin.trans
        /\ activeConnections' = fin.gauge
        /\ conns' = [conns EXCEPT ![c] = fin.conn]
        /\ UNCHANGED <<userServerInstances, connectionTotal, nconn,
                       constructed, httpReply, frvars, mainvars, authvars>>

\* the plugin takes the next message of its inbound stream ('data')
Consume(c) ==
    /\ c \in Accepted
    /\ conns[c].rs # "destroyed"
    /\ conns[c].got < Len(conns[c].queue)
    /\ conns' = [conns EXCEPT ![c].got = @ + 1]
    /\ UNCHANGED <<userServerInstances, userSessionTransports,
                   activeConnections, connectionTotal, nconn, constructed,
                   httpReply, frvars, mainvars, authvars>>

\* the plugin (its run, or a handler of it still in flight) calls
\* writeStream.write(chunk) on the streams of connection c
Write(c, chunk) ==
    /\ c \in Accepted
    /\ Written(nconn) < MaxWrites
    /\ conns' = [conns EXCEPT ![c] = writeStreamWrite(@, chunk)]
    /\ UNCHANGED <<userServerInstances, userSessionTransports,
                   activeConnections, connectionTotal, nconn, constructed,
                   httpReply, frvars, mainvars, authvars>>

\* ----------------------------------------------------- the message route

\* the message route without the `return` after its 404: pushMessage is
\* then called on the missing transport, throws, and the answer is 500
PostMessageNoReturn(serverName, seg, body, pushThrows) ==
    LET k == sessionKey(serverName, seg)
        transport == userSessionTransports[k]
    IN  /\ IF transport = NoTransport
           THEN /\ httpReply' = 500
                /\ UNCHANGED conns
           ELSE IF pushThrows
           THEN /\ httpReply' = 500
                /\ UNCHANGED conns
           ELSE /\ Queued(nconn) < MaxQueue
                /\ conns' = [conns EXCEPT ![transport] = pushMessage(@, body)]
                /\ httpReply' = 202
        /\ UNCHANGED <<userServerInstances, userSessionTransports,
                       activeConnections, connectionTotal, nconn, constructed,
                       frvars, mainvars, authvars>>

\* POST /<serverName>/:sessionKey/messages.  pushThrows: pushMessage throws
\* (a 'data' listener of the plugin throws inside stream.push).
PostMessage(serverName, seg, body, pushThrows) ==
    LET k == sessionKey(serverName, seg)
        transport == userSessionTransports[k]
    IN  /\ IF transport = NoTransport
           THEN /\ httpReply' = 404
                /\ UNCHANGED conns
           ELSE IF pushThrows
           THEN /\ httpReply' = 500
                /\ UNCHANGED conns
           ELSE /\ Queued(nconn) < MaxQueue
                /\ conns' = [conns EXCEPT ![transport] = pushMessage(@, body)]
                /\ httpReply' = 202
        /\ UNCHANGED <<userServerInstances, userSessionTransports,
                       activeConnections, connectionTotal, nconn, constructed,
                       frvars, mainvars, authvars>>

\* ---------------------------------------------------------- the gateway

Init ==
    /\ userServerInstances = [k \in Keys |-> NoInstance]
    /\ userSessionTransports = [k \in Keys |-> NoTransport]
    /\ activeConnections = [s \in ServerNames |-> 0]
    /\ connectionTotal = [s \in ServerNames |-> 0]
    /\ conns = [c \in ConnIds |-> FreeConn]
    /\ nconn = 0
    /\ constructed = [k \in Keys |-> 0]
    /\ httpReply = 0
    /\ entries = <<Entry("gcalendar", GCalendar)>>
    /\ discoveredServers = discoverAndLoadServers(entries, FALSE)
    /\ pc = "serving"
    /\ exitCode = 0
    /\ stdio = NoStdio
    /\ credentialFiles = [p \in Paths |-> NoFile]
    /\ saved = [q \in Pairs |-> NullCredentials]
    /\ credResult = NoCredResult
    /\ toolResponse = NoToolResponse
    \* no Server.run is modelled beside the gateway
    /\ wire = <<>>
    /\ buffer = <<>>
    /\ seen = <<>>
    /\ pending = {}
    /\ out = <<>>
    /\ ended = FALSE

Next ==
    \/ \E s \in ServerNames, e \in Segments, t \in BOOLEAN :
           AcceptConnection(s, e, t)
    \/ \E c \in ConnIds : CloseEvent(c)
    \/ \E c \in ConnIds : RunReturns(c)
    \/ \E c \in ConnIds : RunThrows(c)
    \/ \E c \in ConnIds : Consume(c)
    \/ \E s \in ServerNames, e \in Segments, b \in Bodies, t \in BOOLEAN :
           PostMessage(s, e, b, t)

Spec == Init /\ [][Next]_vars

\* ----------------------------------- the gateway and the plugin's output

\* the accept route and what the plugin writes: the connections' outbound
\* side (the message route does not touch it)
SseNext ==
    \/ \E s \in ServerNames, e \in Segments, t \in BOOLEAN :
           AcceptConnection(s, e, t)
    \/ \E c \in ConnIds : CloseEvent(c)
    \/ \E c \in ConnIds : RunReturns(c)
    \/ \E c \in ConnIds : RunThrows(c)
    \/ \E c \in ConnIds, chunk \in Chunks : Write(c, chunk)

SseSpec == Init /\ [][SseNext]_vars

\* ------------------------------- the gateway running the gcalendar plugin

\* Server.run resolves when readStream emits 'end': the end-of-stream
\* signal was pushed, every message before it was delivered, and the
\* stream was not destroyed
GcRunReturns(c) ==
    /\ c \in Accepted
    /\ conns[c].rs = "ended"
    /\ conns[c].got = Len(conns[c].queue)
    /\ RunReturns(c)

\* Server.run rejects when readStream or writeStream emits 'error': a
\* write on writeStream has failed (destroy() without an argument emits no
\* 'error')
GcRunThrows(c) ==
    /\ c \in Accepted
    /\ conns[c].werrs > 0
    /\ RunThrows(c)

GcNext ==
    \/ \E s \in ServerNames, e \in Segments, t \in BOOLEAN :
           AcceptConnection(s, e, t)
    \/ \E c \in ConnIds : CloseEvent(c)
    \/ \E c \in ConnIds : GcRunReturns(c)
    \/ \E c \in ConnIds : GcRunThrows(c)
    \/ \E c \in ConnIds : Consume(c)
    \/ \E s \in ServerNames, e \in Segments, b \in Bodies, t \in BOOLEAN :
           PostMessage(s, e, b, t)
    \/ \E c \in ConnIds, chunk \in Chunks : Write(c, chunk)

\* The event loop runs what is ready: a settled run promise is followed by
\* the accept handler's continuation, and a flowing stream delivers its
\* data.  Nothing obliges a client to connect, post or leave, nor the
\* plugin to write.
GcSpec ==
    /\ Init
    /\ [][GcNext]_vars
    /\ \A c \in ConnIds :
          /\ WF_vars(GcRunReturns(c))
          /\ WF_vars(GcRunThrows(c))
          /\ WF_vars(Consume(c))

\* =================================================================
\* main: the remote and the local command, from the start of the process
\* =================================================================

\* runRemoteServer that goes on to listen when no plugin was loaded
StartRemoteKeepsGoing(readdirFails) ==
    LET loadedServers == discoverAndLoadServers(entries, readdirFails)
    IN  /\ pc = "main"
        /\ pc' = "metrics"
        /\ discoveredServers' =
              [n \in DirNames |-> IF loadedServers[n] # NoServer
                                  THEN loadedServers[n]
                                  ELSE discoveredServers[n]]
        /\ UNCHANGED <<entries, exitCode, stdio, gwvars, frvars, authvars>>

\* the remote command: runRemoteServer up to the listen of the metrics
\* server.  readdirFails: fs.readdir of SERVERS_DIR rejects.
StartRemote(readdirFails) ==
    LET loadedServers == discoverAndLoadServers(entries, readdirFails)
    IN  /\ pc = "main"
        /\ IF \A n \in DirNames : loadedServers[n] = NoServer
           THEN /\ pc' = "exited"
                /\ exitCode' = 1
                /\ UNCHANGED discoveredServers
           ELSE /\ pc' = "metrics"
                /\ discoveredServers' =
                      [n \in DirNames |-> IF loadedServers[n] # NoServer
                                          THEN loadedServers[n]
                                          ELSE discoveredServers[n]]
                /\ UNCHANGED exitCode
        /\ UNCHANGED <<entries, stdio, gwvars, frvars, authvars>>

\* metricsApp.listen settles: the routes are set up and server.listen is
\* called, or the process exits
ListenMetrics(bound) ==
    /\ pc = "metrics"
    /\ IF bound THEN pc' = "listen" /\ UNCHANGED exitCode
       ELSE pc' = "exited" /\ exitCode' = 1
    /\ UNCHANGED <<entries, discoveredServers, stdio, gwvars, frvars, authvars>>

\* server.listen settles: the routes accept connections, or the process
\* exits
Listen(bound) ==
    /\ pc = "listen"
    /\ IF bound THEN pc' = "serving" /\ UNCHANGED exitCode
       ELSE pc' = "exited" /\ exitCode' = 1
    /\ UNCHANGED <<entries, discoveredServers, stdio, gwvars, frvars, authvars>>

\* The local command for --server serverName, up to the await of run in
\* runStdioServer.  initThrows: getInitializationOptions (or the
\* synchronous part of run) throws; like 'Invalid server factory' it
\* leaves runStdioServer before its try and ends the process with status 1.
StartLocal(serverName, initThrows) ==
    LET r    == getServer(discoveredServers, entries, serverName)
        made == createServerInstance(r.info.serverFactory,
                                     Text(<<"local">>), Undefined)
    IN  /\ pc = "main"
        /\ discoveredServers' = r.servers
        /\ IF r.info = NoServer \/ made.threw \/ initThrows
           THEN /\ pc' = "exited"
                /\ exitCode' = 1
                /\ UNCHANGED stdio
           ELSE /\ pc' = "stdio"
                /\ stdio' = [how |-> made.how, userId |-> made.userId,
                             apiKey |-> made.apiKey, run |-> "pending"]
                /\ UNCHANGED exitCode
        /\ UNCHANGED <<entries, gwvars, frvars, authvars>>

\* local mode: serverInstance.run resolves
StdioRunReturns ==
    /\ pc = "stdio"
    /\ pc' = "done"
    /\ stdio' = [stdio EXCEPT !.run = "returned"]
    /\ UNCHANGED <<entries, discoveredServers, exitCode, gwvars, frvars, authvars>>

\* local mode: serverInstance.run rejects: process.exitCode = 1
StdioRunThrows ==
    /\ pc = "stdio"
    /\ pc' = "done"
    /\ stdio' = [stdio EXCEPT !.run = "threw"]
    /\ exitCode' = 1
    /\ UNCHANGED <<entries, discoveredServers, gwvars, frvars, authvars>>

MainInit ==
    /\ entries \in UNION {Listings(n) : n \in 0..MaxDirs}
    /\ discoveredServers = EmptyMap
    /\ pc = "main"
    /\ exitCode = 0
    /\ stdio = NoStdio
    /\ credentialFiles = [p \in Paths |-> NoFile]
    /\ saved = [q \in Pairs |-> NullCredentials]
    /\ credResult = NoCredResult
    /\ toolResponse = NoToolResponse
    /\ userServerInstances = [k \in AllKeys |-> NoInstance]
    /\ userSessionTransports = [k \in AllKeys |-> NoTransport]
    /\ activeConnections = [s \in DirNames |-> 0]
    /\ connectionTotal = [s \in DirNames |-> 0]
    /\ conns = [c \in ConnIds |-> FreeConn]
    /\ nconn = 0
    /\ constructed = [k \in AllKeys |-> 0]
    /\ httpReply = 0
    \* no Server.run is modelled beside main
    /\ wire = <<>>
    /\ buffer = <<>>
    /\ seen = <<>>
    /\ pending = {}
    /\ out = <<>>
    /\ ended = FALSE

MainNext ==
    \/ \E f \in BOOLEAN : StartRemote(f)
    \/ \E b \in BOOLEAN : ListenMetrics(b)
    \/ \E b \in BOOLEAN : Listen(b)
    \/ \E s \in DirNames, e \in AllSegments, t \in BOOLEAN :
           AcceptConnection(s, e, t)
    \/ \E s \in DirNames, t \in BOOLEAN : StartLocal(s, t)
    \/ StdioRunReturns
    \/ StdioRunThrows

MainSpec == MainInit /\ [][MainNext]_vars

\* ------------------------------------- the accept route and the factories

MaxPlugins == 2    \* entries of SERVERS_DIR when the factories may throw

\* the gateway after a startup that registered a plugin
CreateInit ==
    /\ entries \in UNION {Listings(n) : n \in 1..MaxPlugins}
    /\ discoveredServers = discoverAndLoadServers(entries, FALSE)
    /\ \E s \in DirNames : discoveredServers[s] # NoServer
    /\ pc = "serving"
    /\ exitCode = 0
    /\ stdio = NoStdio
    /\ credentialFiles = [p \in Paths |-> NoFile]
    /\ saved = [q \in Pairs |-> NullCredentials]
    /\ credResult = NoCredResult
    /\ toolResponse = NoToolResponse
    /\ userServerInstances = [k \in AllKeys |-> NoInstance]
    /\ userSessionTransports = [k \in AllKeys |-> NoTransport]
    /\ activeConnections = [s \in DirNames |-> 0]
    /\ connectionTotal = [s \in DirNames |-> 0]
    /\ conns = [c \in ConnIds |-> FreeConn]
    /\ nconn = 0
    /\ constructed = [k \in AllKeys |-> 0]
    /\ httpReply = 0
    /\ wire = <<>>
    /\ buffer = <<>>
    /\ seen = <<>>
    /\ pending = {}
    /\ out = <<>>
    /\ ended = FALSE

\* the accept route of every registered plugin
CreateNext ==
    \/ \E s \in DirNames, e \in Segments, t \in BOOLEAN :
           AcceptConnection(s, e, t)
    \/ AcceptFactoryThrows

CreateSpec == CreateInit /\ [][CreateNext]_vars

\* =================================================================
\* Server.run and Server.handleRequest (the plugin's framer/dispatcher)
\* =================================================================

MaxLines == 2      \* lines of text the inbound stream delivers

InternalError == -32603
ParseError == -32700

\* The pieces of the inbound text: "\n" the line terminator, " " white
\* space, "{" the opening of a JSON object, and one piece for the rest of
\* each JSON object of Objects.  "7" is the JSON text of a number.
SP == " "

Absent == "absent"          \* the member is not in the object (undefined)
Null == "null"              \* the member is the JSON value null

\* what JSON.parse gives for a text that is not JSON
SyntaxError ==
    [kind |-> "SyntaxError", jsonrpc |-> Absent, method |-> Absent,
     id |-> Absent, uri |-> Absent, name |-> Absent]

Obj(jsonrpc, method, id, uri, name) ==
    [kind |-> "object", jsonrpc |-> jsonrpc, method |-> method, id |-> id,
     uri |-> uri, name |-> name]

\* the JSON objects of the inbound lines, by the piece that spells them
Objects ==
    [ a1 |-> Obj("2.0", "list_tools", "1", Absent, Absent),
      a2 |-> Obj("2.0", "call_tool", "2", Absent, "tool"),
      n1 |-> Obj("2.0", "list_tools", Absent, Absent, Absent),
      n2 |-> Obj("2.0", "call_tool", Null, Absent, "tool"),
      u1 |-> Obj("2.0", "nope", "1", Absent, Absent),
      u2 |-> Obj("2.0", "nope", Absent, Absent, Absent),
      u3 |-> Obj("2.0", "nope", Null, Absent, Absent),
      v1 |-> Obj("1.0", "list_tools", "2", Absent, Absent),
      v2 |-> Obj(Absent, "list_tools", Absent, Absent, Absent),
      m1 |-> Obj("2.0", Absent, "1", Absent, Absent),
      e1 |-> Obj("2.0", "", Absent, Absent, Absent),
      e2 |-> Obj("2.0", "", "2", Absent, Absent),
      p1 |-> Obj("2.0", "read_resource", "1", Absent, Absent),
      p2 |-> Obj("2.0", "read_resource", "2", "uri", Absent) ]

Number7 ==
    [kind |-> "number", jsonrpc |-> Absent, method |-> Absent,
     id |-> Absent, uri |-> Absent, name |-> Absent]

RECURSIVE trimStart(_)
trimStart(t) ==
    IF t # <<>> /\ Head(t) = SP THEN trimStart(Tail(t)) ELSE t

RECURSIVE trimEnd(_)
trimEnd(t) ==
    IF t # <<>> /\ t[Len(t)] = SP THEN trimEnd(SubSeq(t, 1, Len(t) - 1))
    ELSE t

\* String.prototype.trim
trim(t) == trimEnd(trimStart(t))

\* JSON.parse(text): white space around the value is skipped
JSONparse(text) ==
    LET t == trim(text)
    IN  IF t = <<"7">> THEN Number7
        ELSE IF Len(t) = 2 /\ t[1] = "{" /\ t[2] \in DOMAIN Objects
             THEN Objects[t[2]]
        ELSE SyntaxError

\* the handlers createServer registers on the Server
Registered == {"list_resources", "read_resource", "list_tools", "call_tool"}

\* the switch of handleRequest without its default case: an unknown method
\* falls through and is answered as a success
DispatchErrorNoDefault(request) ==
    CASE request.method = "list_resources" ->
            IF "list_resources" \notin Registered THEN "Method not found"
            ELSE ""
      [] request.method = "read_resource" ->
            IF "read_resource" \notin Registered THEN "Method not found"
            ELSE IF request.uri = Absent THEN "Missing parameter: uri"
            ELSE ""
      [] request.method = "list_tools" ->
            IF "list_tools" \notin Registered THEN "Method not found"
            ELSE ""
      [] request.method = "call_tool" ->
            IF "call_tool" \notin Registered THEN "Method not found"
            ELSE IF request.name = Absent THEN "Missing parameter: name"
            ELSE ""
      [] OTHER -> ""

\* the switch of handleRequest up to the call of the plugin's handler:
\* the message of the Error thrown before it, "" when the handler is called
DispatchError(request) ==
    CASE request.method = "list_resources" ->
            IF "list_resources" \notin Registered THEN "Method not found"
            ELSE ""
      [] request.method = "read_resource" ->
            IF "read_resource" \notin Registered THEN "Method not found"
            ELSE IF request.uri = Absent THEN "Missing parameter: uri"
            ELSE ""
      [] request.method = "list_tools" ->
            IF "list_tools" \notin Registered THEN "Method not found"
            ELSE ""
      [] request.method = "call_tool" ->
            IF "call_tool" \notin Registered THEN "Method not found"
            ELSE IF request.name = Absent THEN "Missing parameter: name"
            ELSE ""
      [] OTHER -> "Method not found"

\* handleRequest awaits the plugin's handler for this request
CallsHandler(request) == DispatchError(request) = ""

\* a frame written to writeStream: JSON.stringify(response) + '\n'.
\* line is the number of the inbound line it answers.
Response(line, code, message, id) ==
    [line |-> line, code |-> code, message |-> message, id |-> id]

\* handleRequest without the test for a notification
handleRequestAnswersAll(line, request, threw) ==
    LET message == IF ~CallsHandler(request) THEN DispatchError(request)
                   ELSE IF threw THEN "handler failed"
                   ELSE ""
    IN  IF message # "" THEN
            <<Response(line, InternalError, message, request.id)>>
        ELSE <<Response(line, 0, "result", request.id)>>

\* handleRequest with the error response returned before the test for a
\* notification
handleRequestErrorFirst(line, request, threw) ==
    LET message == IF ~CallsHandler(request) THEN DispatchError(request)
                   ELSE IF threw THEN "handler failed"
                   ELSE ""
    IN  IF message # "" THEN
            <<Response(line, InternalError, message, request.id)>>
        ELSE IF request.id = Null \/ request.id = Absent THEN <<>>
        ELSE <<Response(line, 0, "result", request.id)>>

\* handleRequest without its try/catch: the failure reaches the catch
\* branch of the 'data' handler, which answers with a parse error
handleRequestRethrows(line, request, threw) ==
    LET message == IF ~CallsHandler(request) THEN DispatchError(request)
                   ELSE IF threw THEN "handler failed"
                   ELSE ""
    IN  IF message # "" THEN
            <<Response(line, ParseError, "Parse error", request.id)>>
        ELSE IF request.id = Null \/ request.id = Absent THEN <<>>
        ELSE <<Response(line, 0, "result", request.id)>>

\* Server.handleRequest: the responses to write (none, or one).
\* threw: the plugin's handler, if called, throws or rejects.
handleRequest(line, request, threw) ==
    LET message == IF ~CallsHandler(request) THEN DispatchError(request)
                   ELSE IF threw THEN "handler failed"
                   ELSE ""
    IN  IF request.id = Null \/ request.id = Absent THEN <<>>
        ELSE IF message # "" THEN
            <<Response(line, InternalError, message, request.id)>>
        ELSE <<Response(line, 0, "result", request.id)>>

\* `request.jsonrpc !== '2.0' || !request.method` (reading a member of the
\* parsed value null throws, with the same outcome)
InvalidRequest(request) ==
    request.jsonrpc # "2.0" \/ request.method = Absent \/ request.method = ""

\* the catch branch answering with -32600 (Invalid Request)
errorResponseInvalidRequest(line, parsed) ==
    [line |-> line, code |-> -32600, message |-> "Invalid Request",
     id |-> IF parsed.kind = "object" /\ parsed.id # Absent
            THEN parsed.id ELSE Null]

\* the catch branch without its second JSON.parse: the id stays null
errorResponseNullId(line, parsed) ==
    Response(line, ParseError, "Parse error", Null)

\* the catch branch of the 'data' handler: the error frame for a line,
\* with the id of the line when it parses and has one
errorResponse(line, parsed) ==
    Response(line, ParseError, "Parse error",
             IF parsed.kind = "object" /\ parsed.id # Absent
             THEN parsed.id ELSE Null)

RECURSIVE ProcessLinesStopsOnError(_, _, _)
\* the loop of the 'data' handler leaving the loop after an error response
ProcessLinesStopsOnError(buf, o, ls) ==
    LET boundary == indexOfNL(buf, 1)
        text     == SubSeq(buf, 1, boundary - 1)
        line     == trim(text)
        rest     == SubSeq(buf, boundary + 1, Len(buf))
        request  == JSONparse(line)
        n        == Len(ls) + 1
    IN  IF boundary = 0 THEN
            [buffer |-> buf, out |-> o, seen |-> ls, awaiting |-> {}]
        ELSE IF line = <<>> THEN
            ProcessLinesStopsOnError(rest, o, Append(ls, text))
        ELSE IF request.kind = "SyntaxError" \/ InvalidRequest(request) THEN
            [buffer |-> rest, out |-> Append(o, errorResponse(n, request)),
             seen |-> Append(ls, text), awaiting |-> {}]
        ELSE [buffer |-> rest, out |-> o, seen |-> Append(ls, text),
              awaiting |-> {[line |-> n, request |-> request]}]

RECURSIVE ProcessLines(_, _, _)
\* The while loop of the 'data' handler from its test of `boundary` up to
\* its next `await` (or its end): buf is buffer, o what was written so far,
\* ls the lines taken out of the buffer so far (as they were, untrimmed).
\* awaiting holds the request the handler is suspended on, if it is.
ProcessLines(buf, o, ls) ==
    LET boundary == indexOfNL(buf, 1)
        text     == SubSeq(buf, 1, boundary - 1)
        line     == trim(text)
        rest     == SubSeq(buf, boundary + 1, Len(buf))
        request  == JSONparse(line)
        n        == Len(ls) + 1
    IN  IF boundary = 0 THEN
            [buffer |-> buf, out |-> o, seen |-> ls, awaiting |-> {}]
        ELSE IF line = <<>> THEN ProcessLines(rest, o, Append(ls, text))
        ELSE IF request.kind = "SyntaxError" \/ InvalidRequest(request) THEN
            ProcessLines(rest, Append(o, errorResponse(n, request)),
                         Append(ls, text))
        ELSE [buffer |-> rest, out |-> o, seen |-> Append(ls, text),
              awaiting |-> {[line |-> n, request |-> request]}]

\* ---------------------------------------------------------------- actions

\* a 'data' handler whose buffer is local to the handler: every chunk is
\* framed on its own
DataPerChunk(k) ==
    LET r == ProcessLines(SubSeq(wire, 1, k), out, seen)
    IN  /\ ~ended
        /\ k \in 1..Len(wire)
        /\ wire' = SubSeq(wire, k + 1, Len(wire))
        /\ buffer' = r.buffer
        /\ out' = r.out
        /\ seen' = r.seen
        /\ pending' = pending \cup r.awaiting
        /\ UNCHANGED <<ended, gwvars, mainvars, authvars>>

\* readStream emits 'data' with the next k pieces of the text
Data(k) ==
    LET r == ProcessLines(buffer \o SubSeq(wire, 1, k), out, seen)
    IN  /\ ~ended
        /\ k \in 1..Len(wire)
        /\ wire' = SubSeq(wire, k + 1, Len(wire))
        /\ buffer' = r.buffer
        /\ out' = r.out
        /\ seen' = r.seen
        /\ pending' = pending \cup r.awaiting
        /\ UNCHANGED <<ended, gwvars, mainvars, authvars>>

\* A suspended handler may go on when its `await` is over.  An await of
\* handleRequest that called no plugin handler is over within the same
\* turn of the event loop, in the order of the awaits; one that waits for
\* the plugin's handler is over after those, at any time.
MayResume(h) ==
    IF CallsHandler(h.request)
    THEN \A g \in pending : CallsHandler(g.request)
    ELSE \A g \in pending : CallsHandler(g.request) \/ g.line >= h.line

\* the 'data' handler suspended on h goes on: handleRequest has settled,
\* the response (if any) is written, and the loop runs to its next await
Resume(h, threw) ==
    LET r == ProcessLines(buffer,
                          out \o handleRequest(h.line, h.request, threw), seen)
    IN  /\ h \in pending
        /\ MayResume(h)
        /\ threw => CallsHandler(h.request)
        /\ buffer' = r.buffer
        /\ out' = r.out
        /\ seen' = r.seen
        /\ pending' = (pending \ {h}) \cup r.awaiting
        /\ UNCHANGED <<wire, ended, gwvars, mainvars, authvars>>

\* an 'end' handler that takes what is left in the buffer for a last line
EndParsesTail ==
    LET r == IF buffer = <<>> THEN ProcessLines(buffer, out, seen)
             ELSE ProcessLines(buffer \o <<NL>>, out, seen)
    IN  /\ ~ended
        /\ wire = <<>>
        /\ ended' = TRUE
        /\ buffer' = r.buffer
        /\ out' = r.out
        /\ seen' = r.seen
        /\ pending' = pending \cup r.awaiting
        /\ UNCHANGED <<wire, gwvars, mainvars, authvars>>

\* readStream emits 'end' after its last chunk: run's promise resolves
End ==
    /\ ~ended
    /\ wire = <<>>
    /\ ended' = TRUE
    /\ UNCHANGED <<wire, buffer, seen, pending, out, gwvars, mainvars, authvars>>

\* ------------------------------------------------------------- the inputs

\* the lines of text a client may send (without the terminator)
LineTexts ==
    {<<"{", b>> : b \in DOMAIN Objects}
        \cup {<<>>, <<SP>>, <<"{">>, <<"7">>, <<SP, "{", "a1", SP>>}

RECURSIVE Texts(_)
\* the texts of n terminated lines
Texts(n) ==
    IF n = 0 THEN {<<>>}
    ELSE {l \o <<NL>> \o t : l \in LineTexts, t \in Texts(n - 1)}

\* what readStream delivers: up to MaxLines terminated lines, then possibly
\* a line without its terminator
Inputs ==
    {t \o tl : t \in UNION {Texts(n) : n \in 0..MaxLines},
               tl \in {<<>>, <<"{", "a1">>}}

FrInit ==
    /\ wire \in Inputs
    /\ buffer = <<>>
    /\ seen = <<>>
    /\ pending = {}
    /\ out = <<>>
    /\ ended = FALSE
    \* no connection of the gateway is modelled beside Server.run
    /\ userServerInstances = [k \in Keys |-> NoInstance]
    /\ userSessionTransports = [k \in Keys |-> NoTransport]
    /\ activeConnections = [s \in ServerNames |-> 0]
    /\ connectionTotal = [s \in ServerNames |-> 0]
    /\ conns = [c \in ConnIds |-> FreeConn]
    /\ nconn = 0
    /\ constructed = [k \in Keys |-> 0]
    /\ httpReply = 0
    /\ entries = <<Entry("gcalendar", GCalendar)>>
    /\ discoveredServers = discoverAndLoadServers(entries, FALSE)
    /\ pc = "serving"
    /\ exitCode = 0
    /\ stdio = NoStdio
    /\ credentialFiles = [p \in Paths |-> NoFile]
    /\ saved = [q \in Pairs |-> NullCredentials]
    /\ credResult = NoCredResult
    /\ toolResponse = NoToolResponse

FrNext ==
    \/ \E k \in 1..Len(wire) : Data(k)
    \/ \E h \in pending, t \in BOOLEAN : Resume(h, t)
    \/ End

FrSpec == FrInit /\ [][FrNext]_vars

\* =================================================================
\* The gateway with Server.run of the gcalendar plugin on the streams of
\* each connection
\* =================================================================

\* Bodies of the message route in SessSpec, by name: "r1" and "r2" are
\* strings (a text/plain body), "m1" is a JSON object.
SessBodies == {"r1", "r2", "m1"}

\* chunk.toString() of a message taken from the inbound stream: "r1" is a
\* list_tools request with id 1 and its line terminator, "r2" a line with
\* jsonrpc "1.0" and id 2; an object gives "[object Object]"
chunkToString(b) ==
    CASE b = "r1" -> <<"{", "a1", NL>>
      [] b = "r2" -> <<"{", "v1", NL>>
      [] OTHER -> <<"[object Object]">>

\* JSON.stringify(response) + '\n', as the chunk given to writeStream.write
responseChunk(response) ==
    [str |-> TRUE,
     val |-> <<"{\"jsonrpc\":\"2.0\",\"id\":", response.id,
               IF response.code = 0 THEN ",\"result\":" ELSE ",\"error\":",
               "}", NL>>]

RECURSIVE writeResponses(_, _)
\* writeStream.write of each of the responses, on the streams of cr
writeResponses(cr, responses) ==
    IF responses = <<>> THEN cr
    ELSE writeResponses(writeStreamWrite(cr, responseChunk(Head(responses))),
                        Tail(responses))

\* the 'data' handler of the run on connection record cr from its test of
\* `boundary` to its next await (or its end), after the responses `first`
\* were written
runHandler(cr, text, first) ==
    LET r == ProcessLines(text, first, <<>>)
    IN  [writeResponses(cr, r.out) EXCEPT
            !.buf = r.buffer,
            !.awaiting = @ \o [i \in 1..Cardinality(r.awaiting) |->
                                  (CHOOSE h \in r.awaiting : TRUE).request]]

\* Server.run of connection c gets the next message of its readStream
\* ('data'): it is appended to the buffer of that run as text
Deliver(c) ==
    /\ c \in Accepted
    /\ conns[c].run = "pending"
    /\ conns[c].rs # "destroyed"
    /\ conns[c].got < Len(conns[c].queue)
    /\ conns' = [conns EXCEPT ![c] =
          runHandler([@ EXCEPT !.got = @ + 1],
                     @.buf \o chunkToString(@.queue[@.got + 1]), <<>>)]
    /\ UNCHANGED <<userServerInstances, userSessionTransports,
                   activeConnections, connectionTotal, nconn, constructed,
                   httpReply, frvars, mainvars, authvars>>

\* i-th element of a sequence taken out
Without(q, i) == SubSeq(q, 1, i - 1) \o SubSeq(q, i + 1, Len(q))

\* a plugin that keeps the writeStream of its latest run: the response
\* goes to the connection registered for the session key
AnswerOnRegistered(c, i, threw) ==
    LET d == IF userSessionTransports[conns[c].key] = NoTransport THEN c
             ELSE userSessionTransports[conns[c].key]
        responses == handleRequest(0, conns[c].awaiting[i], threw)
    IN  /\ c \in Accepted
        /\ i \in DOMAIN conns[c].awaiting
        /\ conns' = [conns EXCEPT
              ![c] = IF d = c
                     THEN writeResponses([@ EXCEPT !.awaiting = Without(@, i)],
                                         responses)
                     ELSE [@ EXCEPT !.awaiting = Without(@, i)],
              ![d] = IF d = c
                     THEN writeResponses([@ EXCEPT !.awaiting = Without(@, i)],
                                         responses)
                     ELSE writeResponses(@, responses)]
        /\ UNCHANGED <<userServerInstances, userSessionTransports,
                       activeConnections, connectionTotal, nconn, constructed,
                       httpReply, frvars, mainvars, authvars>>

\* The 'data' handler of connection c suspended on its i-th pending
\* request goes on: handleRequest has settled, the response (if any) is
\* written to the writeStream that run was called with, and the loop runs
\* to its next await.  threw: the plugin's handler throws or rejects.
Answer(c, i, threw) ==
    /\ c \in Accepted
    /\ i \in DOMAIN conns[c].awaiting
    /\ conns' = [conns EXCEPT ![c] =
          runHandler([@ EXCEPT !.awaiting = Without(@, i)], @.buf,
                     handleRequest(0, @.awaiting[i], threw))]
    /\ UNCHANGED <<userServerInstances, userSessionTransports,
                   activeConnections, connectionTotal, nconn, constructed,
                   httpReply, frvars, mainvars, authvars>>

SessNext ==
    \/ \E s \in ServerNames, e \in Segments, t \in BOOLEAN :
           AcceptConnection(s, e, t)
    \/ \E c \in ConnIds : CloseEvent(c)
    \/ \E c \in ConnIds : GcRunThrows(c)
    \/ \E c \in ConnIds : Deliver(c)
    \/ \E c \in ConnIds, i \in 1..MaxQueue, t \in BOOLEAN : Answer(c, i, t)
    \/ \E s \in ServerNames, e \in Segments, b \in SessBodies, t \in BOOLEAN :
           PostMessage(s, e, b, t)

SessSpec == Init /\ [][SessNext]_vars

\* =================================================================
\* Credentials: LocalAuthClient, getCredentials, the call_tool handler
\* =================================================================

\* JSON.stringify of a credentials object: its members in order, a member
\* that is undefined left out
JSONstringifyCredentials(credentials) ==
    SelectSeq(<<<<"access_token", credentials.access_token>>,
                <<"refresh_token", credentials.refresh_token>>,
                <<"expiry_date", credentials.expiry_date>>>>,
              LAMBDA m : m[2] # "undefined")

\* the member `key` of the object a text spells
Member(text, key) ==
    IF \E i \in DOMAIN text : text[i][1] = key
    THEN text[CHOOSE i \in DOMAIN text : text[i][1] = key][2]
    ELSE "undefined"

\* JSON.parse of the text of a credentials file
JSONparseCredentials(text) ==
    Credentials(Member(text, "access_token"), Member(text, "refresh_token"),
                Member(text, "expiry_date"))

\* LocalAuthClient.getUserCredentials
getUserCredentials(files, serviceName, userId) ==
    LET path == credsPath(serviceName, userId)
    IN  IF files[path] = NoFile THEN NullCredentials
        ELSE Some(JSONparseCredentials(files[path]))

\* LocalAuthClient.saveUserCredentials: the files after it, and whether it
\* threw (reading toJSON of null is a TypeError)
saveUserCredentials(files, serviceName, userId, credentials) ==
    IF credentials.isNull THEN [threw |-> TRUE, files |-> files]
    ELSE [threw |-> FALSE,
          files |-> [files EXCEPT ![credsPath(serviceName, userId)] =
                                      JSONstringifyCredentials(credentials.value)]]

\* a caller saves credentials with a LocalAuthClient
SaveUserCredentials(serviceName, userId, credentials) ==
    LET r == saveUserCredentials(credentialFiles, serviceName, userId,
                                 credentials)
    IN  /\ credentialFiles' = r.files
        /\ saved' = IF r.threw THEN saved
                    ELSE [saved EXCEPT ![<<serviceName, userId>>] = credentials]
        /\ UNCHANGED <<credResult, toolResponse, gwvars, frvars, mainvars>>

\* The AuthClient getCredentials works with: the placeholder that
\* createAuthClient returns, or a LocalAuthClient in its place.
AuthClients == {"placeholder", "LocalAuthClient"}

\* authClient.getUserCredentials: the placeholder returns null
authGetUserCredentials(authClient, files, serviceName, userId) ==
    IF authClient = "placeholder" THEN NullCredentials
    ELSE getUserCredentials(files, serviceName, userId)

\* authClient.getOAuthConfig: "config", "null", or "throws".  configured:
\* the client id and secret of the service are in the environment
\* (placeholder), its oauth.json exists (LocalAuthClient).
authGetOAuthConfig(authClient, configured) ==
    IF configured THEN "config"
    ELSE IF authClient = "placeholder" THEN "null"
    ELSE "throws"

\* authClient.saveUserCredentials: the placeholder saves nothing
authSaveUserCredentials(authClient, files, serviceName, userId, credentials) ==
    IF authClient = "placeholder" THEN [threw |-> FALSE, files |-> files]
    ELSE saveUserCredentials(files, serviceName, userId, credentials)

\* getCredentials throws
Threw(message, files) ==
    [threw |-> TRUE, message |-> message,
     credentials |-> Credentials("undefined", "undefined", "undefined"),
     client |-> FALSE, files |-> files, saves |-> FALSE]

\* getCredentials that throws when the refresh of an expired token fails
getCredentialsRefreshThrows(authClient, files, userId, serviceName, configured, refreshOk) ==
    LET data      == authGetUserCredentials(authClient, files, serviceName, userId)
        expired   == data.value.expiry_date = "past"
        refreshes == /\ expired /\ refreshOk
                     /\ data.value.refresh_token # "undefined"
        refreshed == Credentials("at2", data.value.refresh_token, "future")
        onClient  == IF refreshes THEN refreshed ELSE data.value
        after     == IF refreshes
                     THEN authSaveUserCredentials(authClient, files, serviceName,
                                                  userId, Some(refreshed)).files
                     ELSE files
    IN  IF data.isNull THEN Threw("Credentials not found for user", files)
        ELSE IF authGetOAuthConfig(authClient, configured) = "throws"
             THEN Threw("OAuth config not found", files)
        ELSE IF authGetOAuthConfig(authClient, configured) = "null"
             THEN Threw("Failed to retrieve OAuth configuration", files)
        ELSE IF expired /\ ~refreshes
             THEN Threw("Failed to refresh token", files)
        ELSE IF onClient.access_token = "undefined"
             THEN Threw("Credentials not found for user", after)
        ELSE [threw |-> FALSE, message |-> "", credentials |-> onClient,
              client |-> TRUE, files |-> after, saves |-> refreshes]

\* getCredentials(userId, serviceName, apiKey) with the auth client
\* createAuthClient(apiKey) gave it.  refreshOk: the token endpoint grants
\* a new access token (refreshAccessToken throws without a refresh token).
\* The result: it threw, or the credentials on the OAuth2Client it
\* returns; the files after it, and whether it saved.
getCredentials(authClient, files, userId, serviceName, configured, refreshOk) ==
    LET data      == authGetUserCredentials(authClient, files, serviceName, userId)
        expired   == data.value.expiry_date = "past"
        refreshes == /\ expired /\ refreshOk
                     /\ data.value.refresh_token # "undefined"
        \* refreshAccessToken keeps the refresh token of the client
        refreshed == Credentials("at2", data.value.refresh_token, "future")
        onClient  == IF refreshes THEN refreshed ELSE data.value
        after     == IF refreshes
                     THEN authSaveUserCredentials(authClient, files, serviceName,
                                                  userId, Some(refreshed)).files
                     ELSE files
    IN  IF data.isNull THEN Threw("Credentials not found for user", files)
        ELSE IF authGetOAuthConfig(authClient, configured) = "throws"
             THEN Threw("OAuth config not found", files)
        ELSE IF authGetOAuthConfig(authClient, configured) = "null"
             THEN Threw("Failed to retrieve OAuth configuration", files)
        ELSE IF onClient.access_token = "undefined"
             THEN Threw("Credentials not found for user", after)
        ELSE [threw |-> FALSE, message |-> "", credentials |-> onClient,
              client |-> TRUE, files |-> after, saves |-> refreshes]

\* what a call of getCredentials leaves in the store
AfterGetCredentials(authClient, r, serviceName, userId) ==
    /\ credentialFiles' = r.files
    /\ saved' = IF r.saves /\ authClient = "LocalAuthClient"
                THEN [saved EXCEPT ![<<serviceName, userId>>] =
                                       Some(r.credentials)]
                ELSE saved

\* a caller awaits getCredentials; credResult keeps what the auth client
\* held and what the environment was, beside the outcome
GetCredentials(authClient, userId, serviceName, configured, refreshOk) ==
    LET r == getCredentials(authClient, credentialFiles, userId, serviceName,
                            configured, refreshOk)
    IN  /\ credResult' =
               [called |-> TRUE,
                stored |-> authGetUserCredentials(authClient, credentialFiles,
                                                  serviceName, userId),
                configured |-> configured, refreshOk |-> refreshOk,
                threw |-> r.threw, message |-> r.message,
                credentials |-> r.credentials, client |-> r.client]
        /\ AfterGetCredentials(authClient, r, serviceName, userId)
        /\ UNCHANGED <<toolResponse, gwvars, frvars, mainvars>>

\* the values of server.userId: NoUser is null or the empty string
NoUser == <<>>
ToolUsers == {<<<<"u1">>>>, NoUser}

\* the arguments of a tool call: null (the handler takes {} for it), an
\* object with every member of the tool well formed, an object with every
\* member but dates and numbers that are not of the format
ToolArgs == {"null", "valid", "badformat"}

ToolNames == {Absent, "list_events", "create_event", "update_event", "tool"}

\* the body of the try block of the call_tool handler: the message of the
\* error it throws, "" when it returns its text.  apiOk: the calls of the
\* Calendar API succeed.
toolError(name, args, apiOk) ==
    CASE name = "list_events" ->
            IF args = "badformat" THEN "Invalid time value"
            ELSE IF ~apiOk THEN "api error"
            ELSE ""
      [] name = "create_event" ->
            IF args = "null"
            THEN "Missing required parameters: summary, start_datetime, end_datetime"
            ELSE IF args = "badformat" THEN "Invalid start_datetime format"
            ELSE IF ~apiOk THEN "api error"
            ELSE ""
      [] name = "update_event" ->
            IF args = "null"
            THEN "Missing required parameter: event_id"
            ELSE IF ~apiOk THEN "api error"
            ELSE IF args = "badformat" THEN "Invalid start_datetime format"
            ELSE ""
      [] OTHER -> "Unknown tool"

TextContent(text) == [type |-> "text", text |-> text]

\* the call_tool handler without its catch block
callToolHandlerNoCatch(userId, name, args, credentials, apiOk) ==
    IF userId = NoUser
    THEN [threw |-> TRUE, message |-> "User ID is not set for call_tool",
          content |-> <<>>]
    ELSE IF credentials.threw
    THEN [threw |-> TRUE, message |-> credentials.message, content |-> <<>>]
    ELSE IF ~credentials.client
    THEN [threw |-> TRUE, message |-> "Could not get credentials for user",
          content |-> <<>>]
    ELSE IF toolError(name, args, apiOk) # ""
    THEN [threw |-> TRUE, message |-> toolError(name, args, apiOk),
          content |-> <<>>]
    ELSE [threw |-> FALSE, message |-> "",
          content |-> <<TextContent(<<name, "done">>)>>]

\* the handler createServer registers with server.call_tool(): it throws,
\* or returns its content.  credentials is the outcome of getCredentials
\* in createCalendarService.
callToolHandler(userId, name, args, credentials, apiOk) ==
    IF userId = NoUser
    THEN [threw |-> TRUE, message |-> "User ID is not set for call_tool",
          content |-> <<>>]
    ELSE IF credentials.threw
    THEN [threw |-> TRUE, message |-> credentials.message, content |-> <<>>]
    ELSE IF ~credentials.client
    THEN [threw |-> TRUE, message |-> "Could not get credentials for user",
          content |-> <<>>]
    ELSE IF toolError(name, args, apiOk) # ""
    THEN [threw |-> FALSE, message |-> "",
          content |-> <<TextContent(<<"Error calling tool", name,
                                      toolError(name, args, apiOk)>>)>>]
    ELSE [threw |-> FALSE, message |-> "",
          content |-> <<TextContent(<<name, "done">>)>>]

\* Server.handleRequest of a call_tool request on a Server of createServer
\* whose userId is `userId`.  toolResponse keeps the response beside what
\* the request and the environment were.
CallTool(id, name, args, userId, authClient, configured, refreshOk, apiOk) ==
    LET request  == Obj("2.0", "call_tool", id, Absent, name)
        calls    == CallsHandler(request)
        asks     == calls /\ userId # NoUser
        r        == getCredentials(authClient, credentialFiles, userId,
                                   SERVICE_NAME, configured, refreshOk)
        h        == callToolHandler(userId, name, args, r, apiOk)
        response == handleRequest(0, request, h.threw)
    IN  /\ toolResponse' =
               IF response = <<>> THEN NoToolResponse
               ELSE [sent |-> TRUE, name |-> name, args |-> args,
                     userSet |-> userId # NoUser,
                     credentials |-> asks /\ ~r.threw, apiOk |-> apiOk,
                     id |-> response[1].id,
                     code |-> response[1].code,
                     message |-> IF ~calls THEN response[1].message
                                 ELSE h.message,
                     content |-> IF response[1].code = 0 THEN h.content
                                 ELSE <<>>]
        /\ IF asks THEN AfterGetCredentials(authClient, r, SERVICE_NAME, userId)
                   ELSE UNCHANGED <<credentialFiles, saved>>
        /\ UNCHANGED <<credResult, gwvars, frvars, mainvars>>

AuthInit ==
    /\ credentialFiles = [p \in Paths |-> NoFile]
    /\ saved = [q \in Pairs |-> NullCredentials]
    /\ credResult = NoCredResult
    /\ toolResponse = NoToolResponse
    \* neither the gateway nor Server.run is modelled beside the store
    /\ userServerInstances = [k \in Keys |-> NoInstance]
    /\ userSessionTransports = [k \in Keys |-> NoTransport]
    /\ activeConnections = [s \in ServerNames |-> 0]
    /\ connectionTotal = [s \in ServerNames |-> 0]
    /\ conns = [c \in ConnIds |-> FreeConn]
    /\ nconn = 0
    /\ constructed = [k \in Keys |-> 0]
    /\ httpReply = 0
    /\ entries = <<Entry("gcalendar", GCalendar)>>
    /\ discoveredServers = discoverAndLoadServers(entries, FALSE)
    /\ pc = "serving"
    /\ exitCode = 0
    /\ stdio = NoStdio
    /\ wire = <<>>
    /\ buffer = <<>>
    /\ seen = <<>>
    /\ pending = {}
    /\ out = <<>>
    /\ ended = FALSE

\* the values a caller may pass to saveUserCredentials
Savable == {Some(v) : v \in CredentialValues} \cup {NullCredentials}

\* the store and getCredentials
AuthNext ==
    \/ \E q \in Pairs, c \in Savable : SaveUserCredentials(q[1], q[2], c)
    \/ \E a \in AuthClients, q \in Pairs, f \in BOOLEAN, k \in BOOLEAN :
           GetCredentials(a, q[2], q[1], f, k)

AuthSpec == AuthInit /\ [][AuthNext]_vars

\* the store of the calendar plugin's users and its call_tool requests
ToolNext ==
    \/ \E u \in ToolUsers \ {NoUser}, c \in Savable :
           SaveUserCredentials(SERVICE_NAME, u, c)
    \/ \E id \in {"1", Null}, n \in ToolNames, g \in ToolArgs,
          u \in ToolUsers, a \in AuthClients, f \in BOOLEAN, k \in BOOLEAN,
          ok \in BOOLEAN :
           CallTool(id, n, g, u, a, f, k, ok)

ToolSpec == AuthInit /\ [][ToolNext]_vars

\* =================================================================
\* Properties of the gateway (under Spec)
\* =================================================================

\* a teardown trigger of connection c has fired: its close event, or its
\* run returning or throwing
TornDown(c) ==
    conns[c].closed \/ conns[c].run \in {"returned", "threw"}

\* the connections accepted on session key k
ConnsOf(k) == {c \in Accepted : conns[c].key = k}

\* the connection accepted last on session key k
Latest(k) == CHOOSE c \in ConnIds : c \in ConnsOf(k) /\ \A d \in ConnsOf(k) : d <= c

\* C1: for every SSE connection on which teardown triggers have fired (the
\* close event, run returning, run throwing, in any combination and
\* order), its handlers have decremented the active-connection gauge
\* exactly once and removed the Transport registration exactly once.
C1_TeardownExactlyOnce ==
    \A c \in Accepted :
        TornDown(c) => conns[c].decs = 1 /\ conns[c].dels = 1

\* C4: a POST to the message route for a session key that has no
\* registered Transport is answered 404, enqueues nothing and leaves the
\* instance map, the transport map and the metrics unchanged.
C4_PostUnknownKey ==
    [][\A s \in ServerNames, e \in Segments :
          userSessionTransports[sessionKey(s, e)] = NoTransport =>
             \* (as the contrapositive: a step with another outcome is not
             \* such a POST)
             (~(/\ httpReply' = 404
                /\ UNCHANGED <<conns, nconn, userSessionTransports,
                               userServerInstances, activeConnections,
                               connectionTotal, constructed>>)
                => \A b \in Bodies, t \in BOOLEAN : ~PostMessage(s, e, b, t))]_vars

\* a POST was answered 404 while another session key has a live session
C4_Witness ==
    /\ httpReply = 404
    /\ \E k \in Keys : userSessionTransports[k] # NoTransport
    /\ \E k \in Keys : userServerInstances[k] = NoInstance

\* C5: over any interleaving of connects, disconnects and reconnects, at
\* most one ServerInstance is ever constructed for a session key; every
\* connection of the key runs the instance the first connect created, and
\* teardown never removes the instance from the instance map.
C5_OneInstancePerKey ==
    /\ \A k \in Keys :
          /\ constructed[k] <= 1
          /\ ConnsOf(k) # {} => userServerInstances[k] # NoInstance
    /\ \A c \in Accepted :
          /\ conns[c].inst = userServerInstances[conns[c].key]
          /\ \A d \in Accepted :
                conns[d].key = conns[c].key => conns[d].inst = conns[c].inst

\* a reconnect: a second connection on the key of a connection that was
\* torn down before
C5_Witness ==
    \E c, d \in Accepted :
        /\ c < d
        /\ conns[c].key = conns[d].key
        /\ conns[c].closed
        /\ conns[c].run = "returned"
        /\ conns[d].run = "pending"

\* a registration is that of the connection accepted last on its key
LatestRegistered ==
    \A k \in Keys :
        userSessionTransports[k] # NoTransport
            => userSessionTransports[k] = Latest(k)

C10_PostEnqueuesOnce ==
    [][\A s \in ServerNames, e \in Segments, b \in Bodies, t \in BOOLEAN :
          PostMessage(s, e, b, t) =>
             LET tr == userSessionTransports[sessionKey(s, e)]
             IN  /\ httpReply' = 404 <=> tr = NoTransport
                 /\ httpReply' = 500 => t
                 /\ (tr # NoTransport /\ ~t) =>
                       /\ httpReply' = 202
                       /\ conns'[tr].queue = Append(conns[tr].queue, b)
                       /\ conns'[tr].got = conns[tr].got]_vars

\* C11: every accept adds exactly one to the lifetime connection counter
\* of the plugin, for a new and for a reused session key; it adds one to
\* the active-connection gauge when no instance existed for the key and
\* leaves the gauge as it was otherwise.  (When the accept handler fails
\* before it first yields, the decrement of its finally block follows in
\* the same step.)
C11_AcceptMetrics ==
    [][\A s \in ServerNames, e \in Segments, t \in BOOLEAN :
          AcceptConnection(s, e, t) =>
             LET isNew == userServerInstances[sessionKey(s, e)] = NoInstance
                 inc   == IF isNew THEN 1 ELSE 0
             IN  /\ connectionTotal'[s] = connectionTotal[s] + 1
                 /\ ~t => activeConnections'[s] = activeConnections[s] + inc
                 /\ t => activeConnections'[s] = activeConnections[s] + inc - 1]_vars

\* two connections were accepted on one session key and both are open:
\* the counter is 2 and the gauge is 1
C11_Witness ==
    \E c, d \in Accepted :
        /\ c < d
        /\ conns[c].key = conns[d].key
        /\ ~TornDown(c) /\ ~TornDown(d)
        /\ connectionTotal[conns[c].server] = 2
        /\ activeConnections[conns[c].server] = 1

\* C19: after the client of an SSE connection has disconnected, the
\* plugin's run call for that connection eventually returns (resolves or
\* rejects), so that the accept handler's finally block runs.  (Under
\* GcSpec: the gateway running the gcalendar Server.)
C19_RunEventuallyReturns ==
    \A c \in ConnIds :
        (c \in Accepted /\ conns[c].closed)
            ~> (conns[c].run \in {"returned", "threw"})

\* =================================================================
\* Properties of the gateway's SSE output (under SseSpec)
\* =================================================================

\* the line breaks of text t
Breaks(t) == Cardinality({i \in DOMAIN t : t[i] = NL})

\* the lines a reader of the event stream finds in bytes
LinesOf(bytes) == split(bytes)

\* bytes is one SSE event made of data lines: it ends with a blank line,
\* no line before that is blank, and each of them begins with `data: `
OneDataEvent(bytes) ==
    LET ls == LinesOf(bytes)
        n  == Len(ls)
    IN  /\ n >= 3
        /\ ls[n] = <<>> /\ ls[n - 1] = <<>>
        /\ \A i \in 1..(n - 2) : ls[i] # <<>> /\ Head(ls[i]) = "data: "

\* the data lines of the event, without `data: `
DataLines(bytes) ==
    LET ls == LinesOf(bytes)
    IN  [i \in 1..(Len(ls) - 2) |-> Tail(ls[i])]

\* the connection of cr takes bytes: its outbound stream and its reply are
\* not ended and the client has not left
Writable(cr) == ~cr.wsEnded /\ ~cr.replyEnded /\ ~cr.closed

\* C12: a write of payload P on the outbound side of an open connection
\* emits exactly one SSE event: one `data: <line>` line for each line of P
\* (the text of P, or its JSON text when P is not a string), joined by
\* single line breaks and followed by a blank line; the data lines are one
\* more than the line breaks of P, and put together they are P.
C12_OneEventPerWrite ==
    [][\A c \in ConnIds, chunk \in Chunks :
          (Writable(conns[c]) /\ Write(c, chunk)) =>
             LET P     == IF chunk.str THEN chunk.val
                          ELSE <<"{">> \o chunk.val \o <<"}">>
                 after == conns'[c].sent
                 ev    == after[Len(after)]
             IN  /\ Len(after) = Len(conns[c].sent) + 1
                 /\ SubSeq(after, 1, Len(after) - 1) = conns[c].sent
                 /\ OneDataEvent(ev)
                 /\ Len(DataLines(ev)) = Breaks(P) + 1
                 /\ join(DataLines(ev)) = P]_vars

\* the payload "x\n\ny" was written after the comment: three data lines,
\* the second of them empty
C12_Witness ==
    \E c \in Accepted :
        /\ Len(conns[c].sent) = 2
        /\ conns[c].sent[2] =
              <<"data: ", "x", NL, "data: ", NL, "data: ", "y", NL, NL>>

\* C13: a write on the outbound side of a connection that has ended (the
\* client has left, or the gateway has ended the reply) completes with an
\* error and puts no bytes on the connection.
C13_WriteAfterEndFails ==
    [][\A c \in ConnIds, chunk \in Chunks :
          ((conns[c].closed \/ conns[c].replyEnded) /\ Write(c, chunk)) =>
             /\ conns'[c].werrs = conns[c].werrs + 1
             /\ conns'[c].sent = conns[c].sent]_vars

\* the plugin wrote after the client had left while run was still
\* pending, and the write failed
C13_Witness ==
    \E c \in Accepted :
        /\ conns[c].closed
        /\ conns[c].run = "pending"
        /\ conns[c].wrote = 1 /\ conns[c].werrs = 1
        /\ conns[c].sent = <<CommentFrame>>

\* C14: on every accepted connection the connection-established comment
\* is the first thing written: it is there from the accept on, before
\* every data event and before the error frame, and it is written once.
C14_CommentFirst ==
    \A c \in Accepted :
        /\ conns[c].sent # <<>>
        /\ conns[c].sent[1] = CommentFrame
        /\ \A i \in 2..Len(conns[c].sent) : conns[c].sent[i] # CommentFrame

\* a connection carries the comment, then a data event, then the error
\* frame
C14_Witness ==
    \E c \in Accepted :
        /\ Len(conns[c].sent) = 3
        /\ conns[c].sent[1] = CommentFrame
        /\ OneDataEvent(conns[c].sent[2])
        /\ conns[c].sent[3] = ErrorFrame

\* the error frames on the connection of cr
ErrorFrames(cr) == {i \in DOMAIN cr.sent : cr.sent[i] = ErrorFrame}

\* C15: when run, or the derivation of its init options, throws on a
\* connection that has not ended, exactly one error frame is written and
\* the reply is ended; when the connection had ended (the client had
\* left), no error frame is written; and nothing is written to a
\* connection after its reply was ended.
C15_ErrorFrameOnce ==
    [][/\ \A c \in ConnIds :
             RunThrows(c) =>
                /\ conns'[c].sent = IF conns[c].closed \/ conns[c].replyEnded
                                    THEN conns[c].sent
                                    ELSE Append(conns[c].sent, ErrorFrame)
                /\ conns'[c].replyEnded
       /\ \A s \in ServerNames, e \in Segments :
             AcceptConnection(s, e, TRUE) =>
                /\ conns'[nconn'].sent = <<CommentFrame, ErrorFrame>>
                /\ conns'[nconn'].replyEnded
       /\ \A c \in ConnIds :
             /\ conns[c].replyEnded => conns'[c].sent = conns[c].sent
             /\ Cardinality(ErrorFrames(conns'[c])) <= 1]_vars

\* run threw on an open connection: the error frame is the last thing on
\* it, and the write the plugin tried afterwards failed
C15_Witness ==
    \E c \in Accepted :
        /\ conns[c].run = "threw" /\ ~conns[c].closed
        /\ conns[c].sent = <<CommentFrame, ErrorFrame>>
        /\ conns[c].wrote = 1 /\ conns[c].werrs = 1

\* the instance-map entry and the registration of every session key other
\* than k are left as they were
OthersUntouched(k) ==
    \A j \in Keys \ {k} :
        /\ userServerInstances'[j] = userServerInstances[j]
        /\ userSessionTransports'[j] = userSessionTransports[j]

\* C18: an error in one session (run throwing, at once or later; a write
\* after close; the teardown by the close event or by run settling)
\* leaves the instance-map entry and the registration of every other
\* session key unchanged.  The registry (ServerNames) is written at
\* start-up only; no step of the model changes it.
C18_ErrorsStayInTheirSession ==
    [][\* (as the contrapositive: a step that changes the entries of
       \* another key is not a step of this session)
       /\ \A c \in ConnIds :
             ~OthersUntouched(conns[c].key)
                => ~(\/ CloseEvent(c) \/ RunReturns(c) \/ RunThrows(c)
                     \/ \E chunk \in Chunks : Write(c, chunk))
       /\ \A s \in ServerNames, e \in Segments :
             ~OthersUntouched(sessionKey(s, e)) => ~AcceptConnection(s, e, TRUE)
       /\ DOMAIN activeConnections' = ServerNames
       /\ DOMAIN connectionTotal' = ServerNames]_vars

\* one session crashed and was torn down after the client had left and a
\* write on it had failed; the session of another key is still
\* registered and running
C18_Witness ==
    \E c, d \in Accepted :
        /\ conns[c].key # conns[d].key
        /\ conns[c].run = "threw" /\ conns[c].closed /\ conns[c].werrs = 1
        /\ conns[d].run = "pending" /\ ~conns[d].closed
        /\ userSessionTransports[conns[d].key] = d
        /\ userServerInstances[conns[d].key] = conns[d].inst

\* C29: when the close event of a connection has fired before its run
\* settles, the finally block of that connection, run when run settles,
\* finds no Transport registered for the key, decrements the gauge no
\* second time and removes nothing.
C29_FinallyAfterCloseIdle ==
    [][\A c \in ConnIds :
          (/\ c \in Accepted
           /\ conns[c].closed
           /\ conns[c].run = "pending"
           /\ conns'[c].run \in {"returned", "threw"})
          => /\ userSessionTransports[conns[c].key] = NoTransport
             /\ userSessionTransports' = userSessionTransports
             /\ activeConnections' = activeConnections
             /\ conns'[c].decs = conns[c].decs
             /\ conns'[c].dels = conns[c].dels]_vars

\* the session keys of plugin s that have a Transport registered
RegisteredKeys(s) ==
    {k \in DOMAIN userSessionTransports :
        k[1] = s /\ userSessionTransports[k] # NoTransport}

\* C30: in every reachable state the active-connection gauge of each
\* plugin is not negative and is the number of the plugin's session keys
\* that have a Transport registered.
C30_GaugeCountsTransports ==
    \A s \in DOMAIN activeConnections :
        /\ activeConnections[s] >= 0
        /\ activeConnections[s] = Cardinality(RegisteredKeys(s))

\* C31: when a second connection was accepted on the session key of a
\* first one that is still open, the teardown of the first (its close
\* event, or its run settling) leaves the Transport registration of the
\* second in place, so that POSTs to the key still reach the second.
C31_SupersededTeardownKeepsNewer ==
    [][\A c, d \in ConnIds :
          (/\ c < d
           /\ d \in Accepted
           /\ conns[c].key = conns[d].key
           /\ ~TornDown(c) /\ ~TornDown(d)
           /\ userSessionTransports[conns[d].key] = d
           /\ TornDown(c)')
          => userSessionTransports'[conns[d].key] = d]_vars

\* C32: at most one call of run is active on a ServerInstance: no two
\* connections that share an instance have their run pending at once.
C32_OneRunPerInstance ==
    \A c, d \in Accepted :
        (c # d /\ conns[c].inst = conns[d].inst)
        => ~(conns[c].run = "pending" /\ conns[d].run = "pending")

\* C35: a POSTed body, whatever its value, does not end the inbound
\* stream of the session: the state of a connection's inbound stream
\* changes only by its being destroyed in the teardown of that connection,
\* and the run of a connection that was not torn down has not returned.
C35_PostNeverEndsStream ==
    [][\A c \in ConnIds :
          /\ conns'[c].rs # conns[c].rs =>
                conns'[c].rs = "destroyed" /\ TornDown(c)'
          /\ (conns[c].run = "pending" /\ conns'[c].run = "returned") =>
                conns[c].closed]_vars

\* =================================================================
\* Properties of the sessions (under SessSpec)
\* =================================================================

\* the id of the request a body carries (Absent: the body is no request)
IdOf(b) ==
    LET t == chunkToString(b)
    IN  IF Len(t) = 3 /\ t[1] = "{" THEN Objects[t[2]].id ELSE Absent

\* the frames connection record cr sent that are responses with this id
ResponsesSent(cr, id) ==
    {j \in DOMAIN cr.sent :
        /\ Len(cr.sent[j]) >= 3
        /\ cr.sent[j][2] = "{\"jsonrpc\":\"2.0\",\"id\":"
        /\ cr.sent[j][3] = id}

\* the requests with this id that the run of cr took from its readStream
RequestsTaken(cr, id) ==
    {j \in 1..cr.got : IdOf(cr.queue[j]) = id}

\* C33: with several connections on one instance, or several sessions at
\* once, a response is written only to the outbound stream of the
\* connection whose inbound stream delivered the request: a connection
\* is sent no more responses with an id than requests with that id were
\* taken from its own inbound stream, and no more responses at all (those
\* with the id null answer lines that are no requests) than chunks were
\* taken from it.
C33_ResponsesStayOnTheirConnection ==
    \A c \in Accepted :
        /\ \A id \in {"1", "2"} :
              Cardinality(ResponsesSent(conns[c], id))
                  <= Cardinality(RequestsTaken(conns[c], id))
        /\ Cardinality(UNION {ResponsesSent(conns[c], id) :
                                  id \in {"1", "2", Null}})
              <= conns[c].got

\* two connections share an instance and are open; the request arrived on
\* the first before the second was accepted and was answered after it:
\* the response is on the first, the second got the comment only
C33_Witness ==
    /\ nconn = 2
    /\ conns[1].inst = conns[2].inst
    /\ ~conns[1].closed /\ ~conns[2].closed
    /\ userSessionTransports[conns[1].key] = 2
    /\ ResponsesSent(conns[1], "1") # {}
    /\ conns[2].sent = <<CommentFrame>>

\* =================================================================
\* Properties of main (under MainSpec)
\* =================================================================

\* the names in the map
RegisteredNames(servers) == {n \in DOMAIN servers : servers[n] # NoServer}

\* the entry is a directory with main.ts whose import fulfils and whose
\* exports pass the checks of loadServerModule
ValidDir(entry) ==
    /\ entry.shape.dir
    /\ entry.shape.main
    /\ entry.shape.imports
    /\ typeOf(entry.shape.server) \in {"function", "object"}
    /\ typeOf(entry.shape.getInitializationOptions) = "function"

\* discovery is over and the process went on
Discovered == pc \in {"metrics", "listen", "serving"}

C24_ResolveCachesOnce ==
    \A n \in DirNames :
        LET r1 == getServer(discoveredServers, entries, n)
            r2 == getServer(r1.servers, entries, n)
        IN  /\ discoveredServers[n] # NoServer =>
                  r1 = [servers |-> discoveredServers,
                        info |-> discoveredServers[n], loads |-> 0]
            /\ discoveredServers[n] = NoServer =>
                  /\ r1.loads <= 1
                  /\ r1.info # NoServer =>
                        /\ r1.loads = 1
                        /\ \E i \in DOMAIN entries :
                              /\ entries[i].name = n
                              /\ r1.info = ServerInfo(loadServerModule(entries[i]))
                        /\ r1.servers = [discoveredServers EXCEPT ![n] = r1.info]
                  /\ r1.info = NoServer => r1.servers = discoveredServers
            /\ r1.info # NoServer =>
                  r2 = [servers |-> r1.servers, info |-> r1.info, loads |-> 0]

\* the local command has resolved its plugin on demand, from a directory
\* with other entries: that name alone is in the map
C24_Witness ==
    /\ pc = "stdio"
    /\ Len(entries) = 3
    /\ \A i \in DOMAIN entries : ValidDir(entries[i])
    /\ Cardinality(RegisteredNames(discoveredServers)) = 1

\* C25: every ServerInfo in the map has a factory that can be constructed
\* or called and a function getInitializationOptions: a module whose
\* `server` export is not a function is never registered.
C25_RegisteredFactoriesCallable ==
    \A n \in DirNames :
        discoveredServers[n] # NoServer =>
            /\ typeOf(discoveredServers[n].serverFactory) = "function"
            /\ typeOf(discoveredServers[n].getInitializationOptions) = "function"

\* the ServerInfo of the plugin connection c is for
FactoryOf(c) == discoveredServers[conns[c].server].serverFactory

\* C26: an accept that creates the instance constructs a factory that has
\* a prototype with (userId, apiKey) and calls one that has none with
\* (userId, apiKey); what it got is the instance stored under the session
\* key.
C26_FactoryShapeDetected ==
    \A c \in Accepted :
        conns[c].made # NotMade =>
            /\ conns[c].made =
                  [threw |-> FALSE,
                   how |-> IF hasPrototype(FactoryOf(c)) THEN "new" ELSE "call",
                   userId |-> conns[c].userId, apiKey |-> conns[c].apiKey]
            /\ conns[c].inst = c
            /\ userServerInstances[conns[c].key] = c

\* one connection had its instance constructed, another had it returned
\* by a call of an arrow function
C26_Witness ==
    /\ nconn = 2
    /\ hasPrototype(FactoryOf(1)) /\ conns[1].made.how = "new"
    /\ FactoryOf(2) = "arrow" /\ conns[2].made.how = "call"
    /\ conns[2].apiKey.def

\* the path segment connection c was accepted with
SegmentOf(c) == SubSeq(conns[c].key, 3, Len(conns[c].key))

\* C27: the accept route splits the path segment at its first colon only:
\* without a colon userId is the segment and apiKey is undefined; with
\* colons userId is the text before the first one and apiKey all the text
\* after it, so that userId, a colon and apiKey make up the segment.
C27_SplitRejoins ==
    \A c \in Accepted :
        IF indexOfColon(SegmentOf(c), 1) = 0
        THEN conns[c].userId = Text(SegmentOf(c)) /\ conns[c].apiKey = Undefined
        ELSE /\ conns[c].userId.def /\ conns[c].apiKey.def
             /\ conns[c].userId.text
                   = SubSeq(SegmentOf(c), 1, indexOfColon(SegmentOf(c), 1) - 1)
             /\ conns[c].userId.text \o <<":">> \o conns[c].apiKey.text
                   = SegmentOf(c)

\* C28: errors of the startup are fatal.  A process that exited did so
\* with a status that is not zero, accepted no connection and ran no
\* plugin; the remote command gets past discovery only with a plugin in
\* the map, connections are accepted only once both listeners are bound,
\* and the local command runs a plugin only if its name was resolved.
C28_StartupErrorsFatal ==
    /\ pc = "exited" => exitCode # 0 /\ nconn = 0 /\ stdio.run = "none"
    /\ Discovered => RegisteredNames(discoveredServers) # {}
    /\ nconn > 0 => pc = "serving"
    /\ pc \in {"stdio", "done"} =>
          /\ stdio.run # "none"
          /\ \E i \in DOMAIN entries :
                /\ ValidDir(entries[i])
                /\ RegisteredNames(discoveredServers) = {entries[i].name}
    /\ stdio.run # "none" => pc \in {"stdio", "done"}

\* discovery loaded two plugins and a listener could not be bound
C28_Witness ==
    /\ pc = "exited"
    /\ exitCode = 1
    /\ Cardinality(RegisteredNames(discoveredServers)) = 2

\* =================================================================
\* Properties of the accept route (under CreateSpec)
\* =================================================================

\* the registered plugins whose factory createServerInstance cannot call
NotCallable ==
    {s \in RegisteredNames(discoveredServers) :
        typeOf(discoveredServers[s].serverFactory) # "function"}

\* C36: an accept whose instance cannot be created changes nothing.  A
\* plugin whose factory is not callable never gets an instance, a
\* Transport, a connection or a count, and a step that answers an accept
\* with 500 leaves the instances, the Transports, the connections, the
\* gauge and the lifetime counter as they were.
C36_FailedCreationChangesNothing ==
    /\ [](\A s \in NotCallable :
             /\ activeConnections[s] = 0
             /\ connectionTotal[s] = 0
             /\ \A c \in 1..nconn : conns[c].server # s
             /\ \A e \in AllSegments :
                   /\ userServerInstances[sessionKey(s, e)] = NoInstance
                   /\ userSessionTransports[sessionKey(s, e)] = NoTransport
                   /\ constructed[sessionKey(s, e)] = 0)
    /\ [][httpReply' = 500 /\ httpReply # 500 =>
            UNCHANGED <<userServerInstances, userSessionTransports,
                        activeConnections, connectionTotal, conns, nconn,
                        constructed>>]_vars

\* an accept was answered 500 while a plugin with a factory that cannot be
\* called is registered beside one that has a connection
C36_Witness ==
    /\ httpReply = 500
    /\ NotCallable # {}
    /\ nconn = 1
    /\ \A s \in NotCallable : connectionTotal[s] = 0

\* =================================================================
\* Properties of the credentials store (under AuthSpec)
\* =================================================================

\* C38: for every (service, user) pair, getUserCredentials returns null
\* when nothing was saved for the pair and otherwise the credentials last
\* saved for that pair, whatever was saved for the other pairs.
C38_ReturnsLastSavedOfPair ==
    \A q \in Pairs :
        getUserCredentials(credentialFiles, q[1], q[2]) = saved[q]

\* the refresh of an expired token that getCredentials tried succeeded
Refreshed(r) ==
    /\ r.stored.value.expiry_date = "past"
    /\ r.refreshOk
    /\ r.stored.value.refresh_token # "undefined"

\* C39: getCredentials either throws or returns a client, and it returns
\* a client exactly when the auth client held credentials for the pair,
\* the OAuth configuration was available and the credentials on the
\* client have an access token (the stored one, or the one of a refresh
\* that succeeded).  When the refresh of an expired token fails and the
\* stored credentials have an access token, the client is returned with
\* the stored credentials.
C39_ClientOnlyWithCredentials ==
    credResult.called =>
        /\ credResult.client <=> ~credResult.threw
        /\ credResult.client =>
              /\ ~credResult.stored.isNull
              /\ credResult.configured
              /\ credResult.credentials.access_token # "undefined"
        /\ credResult.client <=>
              /\ ~credResult.stored.isNull
              /\ credResult.configured
              /\ \/ credResult.stored.value.access_token # "undefined"
                 \/ Refreshed(credResult)
        /\ (/\ credResult.client
            /\ credResult.stored.value.expiry_date = "past"
            /\ ~Refreshed(credResult))
           => credResult.credentials = credResult.stored.value

\* the stored token had expired, its refresh failed, and the client was
\* returned all the same
C39_Witness ==
    /\ credResult.called
    /\ credResult.client
    /\ credResult.stored.value.expiry_date = "past"
    /\ ~credResult.refreshOk
    /\ credResult.credentials.access_token = "at1"

\* =================================================================
\* Properties of the call_tool handler (under ToolSpec)
\* =================================================================

\* C37: a call_tool request with an id, on a Server with a user id and
\* with credentials that getCredentials returns, is answered with a result
\* also when the tool fails: the result is one text block that begins
\* with "Error calling tool" when the tool name is unknown, the arguments
\* are missing or badly formatted or the Calendar API fails.  It is
\* answered with the error -32603 only when the user id is not set, the
\* name parameter is missing or no credentials were obtained.
C37_ToolFailuresAreResults ==
    toolResponse.sent =>
        LET fails == toolError(toolResponse.name, toolResponse.args,
                               toolResponse.apiOk) # ""
        IN  /\ toolResponse.code \in {0, InternalError}
            /\ (/\ toolResponse.name # Absent
                /\ toolResponse.userSet
                /\ toolResponse.credentials
                /\ fails)
               => /\ toolResponse.code = 0
                  /\ Len(toolResponse.content) = 1
                  /\ toolResponse.content[1].type = "text"
                  /\ toolResponse.content[1].text[1] = "Error calling tool"
            /\ toolResponse.code = InternalError =>
                  \/ ~toolResponse.userSet
                  \/ toolResponse.name = Absent
                  \/ ~toolResponse.credentials

\* the answer to a create_event call without arguments by a user whose
\* credentials are stored: a result with the text of the error
C37_Witness ==
    /\ toolResponse.sent
    /\ toolResponse.code = 0
    /\ toolResponse.content
           = <<TextContent(<<"Error calling tool", "create_event",
                "Missing required parameters: summary, start_datetime, end_datetime">>)>>
    /\ ~saved[<<SERVICE_NAME, <<<<"u1">>>>>>].isNull

\* =================================================================
\* Properties of Server.run (under FrSpec)
\* =================================================================

\* what line i of the inbound text parses to
Parsed(i) == JSONparse(seen[i])

\* the handling of line i is over: no handler is suspended on it
Finished(i) == \A h \in pending : h.line # i

\* the positions in out of the responses to line i
ResponsesTo(i) == {j \in DOMAIN out : out[j].line = i}

KnownMethods == {"list_resources", "read_resource", "list_tools", "call_tool"}

\* line i is answered by one response at most, by exactly one once its
\* handling is over, and every response to it carries id
AnsweredOnce(i, id) ==
    /\ Cardinality(ResponsesTo(i)) <= 1
    /\ Finished(i) => Cardinality(ResponsesTo(i)) = 1
    /\ \A j \in ResponsesTo(i) : out[j].id = id

\* C2 as stated: every line that is a request with jsonrpc "2.0" and a
\* method member is answered exactly once, with its own id, if its id is
\* present and not null, and is not answered if its id is absent or null.
C2_OneResponsePerRequest ==
    \A i \in DOMAIN seen :
        (Parsed(i).kind = "object" /\ Parsed(i).jsonrpc = "2.0"
            /\ Parsed(i).method # Absent)
        => IF Parsed(i).id \notin {Absent, Null}
           THEN AnsweredOnce(i, Parsed(i).id)
           ELSE ResponsesTo(i) = {}

\* C2 (amended): the same for every line that is a request with jsonrpc
\* "2.0" and a method that is present and not the empty string.
C2_OneResponsePerValidRequest ==
    \A i \in DOMAIN seen :
        (Parsed(i).kind = "object" /\ ~InvalidRequest(Parsed(i)))
        => IF Parsed(i).id \notin {Absent, Null}
           THEN AnsweredOnce(i, Parsed(i).id)
           ELSE ResponsesTo(i) = {}

\* two lines were handled to the end, a request with an id and a
\* notification, and the only response is the one to the request
C2_Witness ==
    \E i, k \in DOMAIN seen :
        /\ ~InvalidRequest(Parsed(i)) /\ Parsed(i).id \notin {Absent, Null}
        /\ ~InvalidRequest(Parsed(k)) /\ Parsed(k).id \in {Absent, Null}
        /\ Finished(i) /\ Finished(k)
        /\ Len(out) = 1
        /\ out[1].line = i /\ out[1].id = Parsed(i).id

\* C3: the responses written appear in the order of the requests (the
\* lines) that produced them, whatever the chunking and however long the
\* handlers take.
C3_ResponsesInRequestOrder ==
    \A i, j \in DOMAIN out : i < j => out[i].line < out[j].line

\* C7 as stated: a line whose JSON has no id (absent or null) is never
\* answered, also when it is an invalid request or its handler throws.
C7_NoResponseWithoutId ==
    \A i \in DOMAIN seen :
        (Parsed(i).kind # "SyntaxError" /\ Parsed(i).id \in {Absent, Null})
        => ResponsesTo(i) = {}

\* C7 (amended): a line that is a valid request (jsonrpc "2.0", a method
\* that is not empty) and whose id is absent or null is never answered,
\* also when its dispatch fails or its handler throws.
C7_NoResponseToNotification ==
    \A i \in DOMAIN seen :
        (Parsed(i).kind = "object" /\ ~InvalidRequest(Parsed(i))
            /\ Parsed(i).id \in {Absent, Null})
        => ResponsesTo(i) = {}

\* two notifications were handled to the end, one that called the
\* plugin's handler and one whose dispatch failed (method not found), and
\* nothing was written
C7_Witness ==
    \E i, k \in DOMAIN seen :
        /\ ~InvalidRequest(Parsed(i)) /\ Parsed(i).id \in {Absent, Null}
        /\ ~InvalidRequest(Parsed(k)) /\ Parsed(k).id \in {Absent, Null}
        /\ CallsHandler(Parsed(i)) /\ ~CallsHandler(Parsed(k))
        /\ Finished(i) /\ Finished(k)
        /\ out = <<>>

\* line i is answered by exactly one response, a parse error with id null
ParseErrorAnswer(i) ==
    /\ Cardinality(ResponsesTo(i)) = 1
    /\ \A j \in ResponsesTo(i) : out[j].code = ParseError /\ out[j].id = Null

\* C8 as stated: a non-empty line that is not parseable as JSON is
\* answered by exactly one error response with code -32700 and id null.
C8_ParseErrorForNonEmptyLine ==
    \A i \in DOMAIN seen :
        (seen[i] # <<>> /\ Parsed(i).kind = "SyntaxError")
        => ParseErrorAnswer(i)

\* C8 (amended): a line that is not empty once the white space around it
\* is trimmed and that is not parseable as JSON is answered by exactly one
\* error response with code -32700 and id null.
C8_ParseErrorForNonBlankLine ==
    \A i \in DOMAIN seen :
        (trim(seen[i]) # <<>> /\ Parsed(i).kind = "SyntaxError")
        => ParseErrorAnswer(i)

\* a line that is not JSON was taken out of the buffer and answered
C8_Witness ==
    \E i \in DOMAIN seen :
        /\ trim(seen[i]) # <<>>
        /\ Parsed(i).kind = "SyntaxError"
        /\ \E j \in DOMAIN out : out[j].line = i /\ out[j].code = ParseError

\* line i is answered once by a "Method not found" error with its own id
MethodNotFoundAnswer(i) ==
    /\ AnsweredOnce(i, Parsed(i).id)
    /\ \A j \in ResponsesTo(i) :
          out[j].code # 0 /\ out[j].message = "Method not found"

\* C9 as stated: a request with jsonrpc "2.0", a present id and a method
\* name other than the four known ones is answered by exactly one
\* "method not found" error that carries its id.
C9_UnknownMethodNotFound ==
    \A i \in DOMAIN seen :
        (Parsed(i).kind = "object" /\ Parsed(i).jsonrpc = "2.0"
            /\ Parsed(i).id # Absent
            /\ Parsed(i).method \notin KnownMethods \cup {Absent})
        => MethodNotFoundAnswer(i)

\* C9 (amended): the same for a request whose id is present and not null
\* and whose method name is not empty.
C9_UnknownMethodNotFoundValid ==
    \A i \in DOMAIN seen :
        (Parsed(i).kind = "object" /\ Parsed(i).jsonrpc = "2.0"
            /\ Parsed(i).id \notin {Absent, Null}
            /\ Parsed(i).method \notin KnownMethods \cup {Absent, ""})
        => MethodNotFoundAnswer(i)

\* a request for an unknown method was handled to the end and answered
C9_Witness ==
    \E i \in DOMAIN seen :
        /\ Parsed(i).kind = "object" /\ Parsed(i).jsonrpc = "2.0"
        /\ Parsed(i).id \notin {Absent, Null}
        /\ Parsed(i).method \notin KnownMethods \cup {Absent, ""}
        /\ Finished(i)
        /\ \E j \in DOMAIN out :
              out[j].line = i /\ out[j].message = "Method not found"

\* the step is the end of the dispatch of h, and the dispatch failed: a
\* parameter was missing, the method is unknown, or the handler threw
DispatchFails(h, threw) ==
    Resume(h, threw) /\ (threw \/ ~CallsHandler(h.request))

\* After the step, the failed dispatch of h is answered by one error
\* response with code -32603, the failure's message and the id of h, and
\* run goes on: the step does not settle it, and no complete line is left
\* in the buffer without a handler in flight that will come to it.
FailureAnswered(h, threw) ==
    /\ Len(out') > Len(out)
    /\ out'[Len(out) + 1] =
          Response(h.line, InternalError,
                   IF CallsHandler(h.request) THEN "handler failed"
                   ELSE DispatchError(h.request),
                   h.request.id)
    /\ Cardinality({j \in DOMAIN out' : out'[j].line = h.line}) = 1
    /\ ended' = ended
    /\ indexOfNL(buffer', 1) = 0 \/ pending' # {}

\* C16 as stated: a request whose id is present and whose dispatch fails
\* is answered by exactly one error response with code -32603, the
\* failure's message and its id, and run neither rejects nor stops.
C16_DispatchFailureAnswered ==
    [][\A h \in pending, t \in BOOLEAN :
          (DispatchFails(h, t) /\ h.request.id # Absent)
             => FailureAnswered(h, t)]_vars

\* C16 (amended): the same for a request whose id is present and not null.
C16_DispatchFailureAnsweredNonNull ==
    [][\A h \in pending, t \in BOOLEAN :
          (DispatchFails(h, t) /\ h.request.id \notin {Absent, Null})
             => FailureAnswered(h, t)]_vars

\* a handler threw and was answered with -32603 and the request's id, and
\* a later line was answered after that
C16_Witness ==
    \E i, j \in DOMAIN out :
        /\ i < j
        /\ out[i].code = InternalError /\ out[i].message = "handler failed"
        /\ out[i].id = Parsed(out[i].line).id
        /\ out[j].line > out[i].line

\* line i was answered with an error (a parse error or a dispatch error)
AnsweredWithError(i) == \E j \in DOMAIN out : out[j].line = i /\ out[j].code # 0

\* line i, whose handling is over, was handled by the rules for a line: a
\* blank line is skipped, a line that is not a valid request gets one
\* parse error, a notification gets nothing, a request gets one response
\* with its id
HandledByRules(i) ==
    LET r == Parsed(i)
    IN  IF trim(seen[i]) = <<>> THEN ResponsesTo(i) = {}
        ELSE IF r.kind = "SyntaxError" \/ InvalidRequest(r) THEN
            /\ Cardinality(ResponsesTo(i)) = 1
            /\ \A j \in ResponsesTo(i) : out[j].code = ParseError
        ELSE IF r.id \in {Absent, Null} THEN ResponsesTo(i) = {}
        ELSE /\ Cardinality(ResponsesTo(i)) = 1
             /\ \A j \in ResponsesTo(i) : out[j].id = r.id

\* C17: after a per-message error the session goes on: a complete line is
\* never left in the buffer without a handler in flight that will come to
\* it, every line that follows a line answered with an error is handled
\* by the same rules, and run settles only when the inbound stream has
\* ended (so the gateway has no cause to remove the registration).
C17_SessionContinuesAfterError ==
    /\ indexOfNL(buffer, 1) # 0 => pending # {}
    /\ \A k, i \in DOMAIN seen :
          (k < i /\ AnsweredWithError(k) /\ Finished(i)) => HandledByRules(i)
    /\ ended => wire = <<>>

\* the first line was answered with a parse error, and the request on the
\* line after it was handled and answered with its result
C17_Witness ==
    /\ Len(seen) >= 2
    /\ Parsed(1).kind = "SyntaxError"
    /\ Len(out) = 2
    /\ out[1].line = 1 /\ out[1].code = ParseError
    /\ out[2].line = 2 /\ out[2].code = 0 /\ out[2].id = Parsed(2).id

\* C20: inbound lines are processed strictly one after the other: while
\* the handling of a line is in flight, no later line is being handled
\* and none has been answered, also when the lines arrive in different
\* chunks.
C20_OneLineAtATime ==
    \A h \in pending :
        /\ \A g \in pending : g.line <= h.line
        /\ \A j \in DOMAIN out : out[j].line < h.line


RECURSIVE UnterminatedTail(_)
\* the text of t after its last line terminator
UnterminatedTail(t) ==
    IF indexOfNL(t, 1) = 0 THEN t
    ELSE UnterminatedTail(SubSeq(t, indexOfNL(t, 1) + 1, Len(t)))

\* the number of line terminators in t
Terminators(t) == Cardinality({i \in DOMAIN t : t[i] = NL})

\* C21: when the inbound stream ends, the text left in the buffer after the
\* last line terminator is discarded: from the 'end' event on it stays in
\* the buffer as it is, the only lines taken out of the buffer are
\* terminated ones, and every suspended handler and every response is for
\* a line that was taken out.
C21_TailDiscarded ==
    [][ended' =>
         /\ UnterminatedTail(buffer') = UnterminatedTail(buffer)
         /\ Len(seen') - Len(seen) = Terminators(buffer) - Terminators(buffer')
         /\ \A h \in pending' : h.line \in DOMAIN seen'
         /\ \A j \in DOMAIN out' : out'[j].line \in DOMAIN seen']_vars

\* the stream has ended with a request left unterminated in the buffer,
\* after a line before it was answered
C21_Witness ==
    /\ ended
    /\ pending = {}
    /\ buffer = <<"{", "a1">>
    /\ Len(seen) = 1
    /\ Len(out) = 1


\* C22: a line that is valid JSON and has an id but is not a valid request
\* (jsonrpc is not "2.0", or method is missing) is answered by exactly one
\* error response, with code -32700 and the id of the line, and no handler
\* of the plugin is awaited for it.
C22_InvalidRequestKeepsId ==
    \A i \in DOMAIN seen :
        (Parsed(i).kind = "object" /\ Parsed(i).id # Absent
            /\ InvalidRequest(Parsed(i)))
        => /\ Cardinality(ResponsesTo(i)) = 1
           /\ \A j \in ResponsesTo(i) :
                 out[j].code = ParseError /\ out[j].id = Parsed(i).id
           /\ \A h \in pending : h.line # i

\* a request without a method and one with jsonrpc "1.0", both with an id,
\* were taken out of the buffer and answered
C22_Witness ==
    /\ Len(seen) = 2
    /\ Parsed(1) = Objects.m1 /\ Parsed(2) = Objects.v1
    /\ Len(out) = 2
    /\ out[1].id = "1" /\ out[2].id = "2"


\* the inbound text: the lines taken out of the buffer with their
\* terminators, what is in the buffer, and what readStream has yet to
\* deliver
TextOf ==
    (IF seen = <<>> THEN <<>> ELSE join(seen) \o <<NL>>) \o buffer \o wire

\* C34: framing depends on the inbound text only, not on how it is cut
\* into chunks: whatever chunk is delivered, and whatever handlers are
\* pending, the lines taken out of the buffer are the next lines of the
\* text, in order and once each; a line that is a request is dispatched
\* when it is taken, once; a chunk that completes no line takes out and
\* dispatches nothing.
C34_FramingIgnoresChunking ==
    [][/\ TextOf' = TextOf
       /\ \A h \in pending' \ pending :
             /\ h.line \in (Len(seen) + 1)..Len(seen')
             /\ h.request = JSONparse(seen'[h.line])
             /\ \A g \in pending' : g.line = h.line => g = h
       /\ \A i \in (Len(seen) + 1)..Len(seen') :
             (trim(seen'[i]) # <<>> /\ JSONparse(seen'[i]).kind = "object"
                /\ ~InvalidRequest(JSONparse(seen'[i])))
             => \E h \in pending' \ pending : h.line = i
       /\ (wire' # wire /\ indexOfNL(buffer', 1) = 0 /\ buffer' = buffer \o SubSeq(wire, 1, Len(wire) - Len(wire')))
             => seen' = seen /\ pending' = pending /\ out' = out]_vars

\* two lines were dispatched in different 'data' events, the handler of
\* the first still pending when the second came, and a chunk without a
\* terminator has left the start of a further line in the buffer
C34_Witness ==
    /\ Len(seen) = 2
    /\ {h.line : h \in pending} = {1, 2}
    /\ buffer = <<"{">>
    /\ wire # <<>>

====
